---- MODULE Spec2Model ----
(***************************************************************************)
(* Live flash auction: one auction, its live state in Redis, its durable   *)
(* record in PostgreSQL, the bid-processing service (BidService), the      *)
(* timer service (TimerManager), the auction-management service            *)
(* (AuctionService) and the two SQS consumers (lambdas).                   *)
(*                                                                         *)
(* Every Redis command, every database commit and every queue operation is *)
(* one atomic step; a handler is the sequence of its steps, and handlers   *)
(* of different requests interleave between steps.                         *)
(*                                                                         *)
(* Time is counted in seconds (the code counts milliseconds and multiplies *)
(* the settings by 1000).  Amounts are whole dollars: for these values the *)
(* conversions str(amount) -> tonumber -> tostring -> float of the commit  *)
(* script and its callers are exact (Lua prints numbers with 14            *)
(* significant digits), so the stored string is represented by its value.  *)
(***************************************************************************)
EXTENDS Integers, Sequences, FiniteSets, TLC

\* ---------------------------------------------------------------- settings
ANTI_SNIPE_THRESHOLD == 30
ANTI_SNIPE_EXTENSION == 30
MAX_ANTI_SNIPE_EXTENSIONS == 5
MINIMUM_BID_INCREMENT == 100

\* ---------------------------------------------------------------- bounds
\* the clock advances in steps of TickStep seconds, at most MaxTicks times
TickStep == 20
MaxTicks == 2
\* number of process_bid calls started in one behaviour
MaxCalls == 3
\* number of close_auction requests started in one behaviour
MaxCloses == 2
\* number of database or Redis operations that fail in one behaviour
MaxFaults == 1
MaxRedeliveries == 1
MaxMgCalls == 2

Host == "host"
Bidders == {"u1", "u2"}
Users == Bidders \cup {Host}
\* amounts a caller may submit
Amounts == {500, 600, 700}
\* inputs of create_auction: duration (seconds) and starting bid
Durations == {40}
StartingBids == {100}

None == "none"

\* ---------------------------------------------------------------- state
VARIABLES
    now,        \* the wall clock (get_current_timestamp_ms, in seconds)
    ticks,      \* number of clock advances so far
    state,      \* Redis hash auction:{id}:state
    endKey,     \* Redis key auction:{id}:end_time: {} when missing, else {value}
    topBids,    \* Redis sorted set auction:{id}:top_bids: set of <<member, score>>
    events,     \* messages published on channel auction:{id}:events
    timerEvents,\* messages published on channel auction:{id}:timer
    bidQueue,   \* SQS bid queue: messages waiting for the persistence consumer
    bidDedup,   \* SQS bid queue: MessageDeduplicationIds already accepted
    pb,         \* process_bid calls: per caller the position and the locals
    calls,      \* number of process_bid calls started
    accepted,   \* history: the bids the commit script accepted, in commit order
    activeKey,  \* Redis key auction:{id}:active: TRUE when present
    db,         \* the auction's row in the auctions table
    tm,         \* TimerManager: active_auctions, last_sync_time, position, locals
    cl,         \* close_auction requests: position and requesting user
    closes,     \* number of close_auction requests started
    faults,     \* number of failed database or Redis operations so far
    closeLog,   \* history: how often each close side effect was performed
    notifQueue, \* SQS notification queue: messages waiting for the consumer
    notifDedup, \* SQS notification queue: MessageDeduplicationIds accepted
    emails,     \* per user the number of emails SES was asked to send
    redeliveries, \* number of repeated deliveries of a queue message
    bidsTable,  \* DynamoDB bids table: the items of the auction
    mg,         \* place_bid calls: per caller the position and the locals
    mgCalls,    \* number of place_bid calls started
    pgBids      \* the bids table of the database: rows in insertion order

consumerVars == <<emails, redeliveries, bidsTable>>
\* the websocket service
VARIABLES
    sockets,     \* per connection id: "new", "open" or "closed"
    handshake,   \* per connection id: the token of request.args
    connections, \* ConnectionHandler.connections (memory of the process)
    connKeys,    \* Redis hashes connection:{sid}
    auction_connections, \* Redis hashes connections:auction:{id}: user -> sid
    room,        \* Socket.IO rooms, per auction: the connection ids in it
    participants,        \* Redis sets auction:{id}:users, per auction
    participant_count,   \* field participant_count of the state hashes
    chatChannel, \* messages published on channel auction:{id}:chat
    chatHistory, \* Redis list auction:{id}:chat_history
    broadcasts,  \* socketio.emit(..., room = auction_id) of this run, in order
    handled,     \* events the pub/sub listener has taken from its subscription
    wsOps,       \* number of client events handled so far
    chatListener, \* chat messages the listener of ChatHandler has handled
    chatPubSub,  \* chat messages the listener of PubSubService has handled
    wsCall,      \* per connection id: the handler in progress and its locals
    ps,          \* PubSubService: running and the locals of _start_with_retry
    us           \* the users table and the last get_or_create_user_from_cognito

wsVars == <<sockets, handshake, connections, connKeys, auction_connections,
            room, participants, participant_count, chatChannel, chatHistory,
            broadcasts, handled, wsOps, chatListener, chatPubSub, wsCall>>
mgVars == <<mg, mgCalls, pgBids>>

vars == <<now, ticks, state, endKey, topBids, events, timerEvents,
          bidQueue, bidDedup, pb, calls, accepted, activeKey, db, tm, cl,
          closes, faults, closeLog, notifQueue, notifDedup, emails,
          redeliveries, bidsTable, mg, mgCalls, pgBids, sockets, handshake,
          connections, connKeys, auction_connections, room, participants,
          participant_count, chatChannel, chatHistory, broadcasts, handled,
          wsOps, chatListener, chatPubSub, wsCall, ps, us>>

\* ---------------------------------------------------------------- helpers
\* state_data of create_auction, written by set_auction_state
NewState(host, starting, start, end) ==
    [exists |-> TRUE, status |-> "live", host_user_id |-> host,
     current_high_bid |-> starting, high_bidder_id |-> None,
     bid_count |-> 0, end_time |-> end, anti_snipe_count |-> 0]

\* the hash before create_auction wrote it (HGETALL returns {})
NoState ==
    [exists |-> FALSE, status |-> None, host_user_id |-> None,
     current_high_bid |-> 0, high_bidder_id |-> None,
     bid_count |-> 0, end_time |-> 0, anti_snipe_count |-> 0]

\* int(redis.get(end_time_key) or 0)
EndKeyValue == IF endKey = {} THEN 0 ELSE CHOOSE v \in endKey : TRUE

IdleCall ==
    [pc |-> "idle", amount |-> 0, current_high |-> 0, end_time_ms |-> 0,
     time_remaining |-> 0, timestamp |-> 0, bid_id |-> 0, count |-> 0,
     snipe |-> FALSE, result |-> None, http |-> 0, reported_high |-> 0]

\* POST /api/bids: the status code the route answers with.  A returned
\* result is 200 only when its status is "success"; an AuctionError carries
\* the status code of its class; any other exception is answered 500.
BidRouteStatus(r) ==
    IF r = "success" THEN 200
    ELSE IF r = "outbid" THEN 400
    ELSE IF r = "AuctionNotFound" THEN 404
    ELSE IF r = "AuctionClosed" THEN 400
    ELSE IF r = "InvalidBid" THEN 400
    ELSE IF r = "Forbidden" THEN 403
    ELSE 500

\* the call of u for the route has ended with r (returned or raised)
Answered(r) == [IdleCall EXCEPT !.result = r, !.http = BidRouteStatus(r)]

\* the call of u returns (or raises) r: its locals are dropped
Return(u, r) == pb' = [pb EXCEPT ![u] = Answered(r)]

\* the result of an outbid call: status outbid, and as current_high_bid the
\* local current_high, which is the high bid read in step 1
Outbid(c) == [Answered("outbid") EXCEPT !.reported_high = c.current_high]


\* ---------------------------------------------------------------- commit script
\* BID_COMPARISON_SCRIPT: one atomic Redis step.  HGET of a missing field
\* yields nil, read as '0'.
ScriptAccepts_NotStrict(st, amount) == amount >= st.current_high_bid

ScriptAccepts(st, amount) == amount > st.current_high_bid

BID_COMPARISON_SCRIPT_Unguarded(st, amount, user) ==
    [st EXCEPT !.exists = TRUE,
               !.current_high_bid = amount,
               !.high_bidder_id = user,
               !.bid_count = @ + 1]

BID_COMPARISON_SCRIPT(st, amount, user) ==
    IF ScriptAccepts(st, amount)
    THEN [st EXCEPT !.exists = TRUE,
                    !.current_high_bid = amount,
                    !.high_bidder_id = user,
                    !.bid_count = @ + 1]
    ELSE st

\* ---------------------------------------------------------------- leaderboard
\* sorted-set order: by score, ties by member (lexicographic)
MemberOrder == <<"host", "p1", "p2", "p3", "u1", "u2">>
MemberRank(u) == CHOOSE i \in 1..Len(MemberOrder) : MemberOrder[i] = u
Below(a, b) == a[2] < b[2] \/ (a[2] = b[2] /\ MemberRank(a[1]) < MemberRank(b[1]))

RECURSIVE RemoveLowest(_, _)
\* ZREMRANGEBYRANK key 0 k-1: drop the k lowest-ranked members
RemoveLowest(S, k) ==
    IF k <= 0 \/ S = {} THEN S
    ELSE LET m == CHOOSE x \in S : \A y \in S \ {x} : Below(x, y)
         IN  RemoveLowest(S \ {m}, k - 1)

\* ZADD key {member: score}: the member's score is replaced
ZAdd(S, user, amount) == {e \in S : e[1] # user} \cup {<<user, amount>>}

\* ---------------------------------------------------------------- process_bid
\* what a call leaves alone besides the variables named
BidFrame ==
    UNCHANGED <<now, ticks, activeKey, db, tm, cl, closes, faults, closeLog,
                notifQueue, notifDedup, consumerVars, mgVars, wsVars, ps, us>>

\* step 1 and 1.5: HGETALL of the live state, status and host checks.  The
\* hash written by create_auction always carries host_user_id, so the
\* database backfill of the host is not taken.
StateError_NoHostCheck(st, u) ==
    IF ~st.exists THEN "AuctionNotFound"
    ELSE IF st.status # "live" THEN "AuctionClosed"
    ELSE None

StateError(st, u) ==
    IF ~st.exists THEN "AuctionNotFound"
    ELSE IF st.status # "live" THEN "AuctionClosed"
    ELSE IF st.host_user_id # None /\ st.host_user_id = u THEN "Forbidden"
    ELSE None

PbReadState(u) ==
    /\ pb[u].pc = "idle"
    /\ calls < MaxCalls
    /\ calls' = calls + 1
    /\ \E amount \in Amounts :
         IF StateError(state, u) # None THEN Return(u, StateError(state, u))
         ELSE pb' = [pb EXCEPT ![u] = [IdleCall EXCEPT
                        !.pc = "end_time", !.amount = amount,
                        !.current_high = state.current_high_bid]]
    /\ UNCHANGED <<state, endKey, topBids, events, timerEvents, bidQueue,
                   bidDedup, accepted>>
    /\ BidFrame

\* step 2 and 3: the expiry check, then the minimum amount
TimeAmountError_AmountFirst(time_remaining_ms, amount, current_high) ==
    IF amount < current_high + MINIMUM_BID_INCREMENT THEN "InvalidBid"
    ELSE IF time_remaining_ms <= 0 THEN "AuctionClosed"
    ELSE None

\* the minimum taken as exclusive (not what the code does)
TimeAmountError_Exclusive(time_remaining_ms, amount, current_high) ==
    IF time_remaining_ms <= 0 THEN "AuctionClosed"
    ELSE IF amount <= current_high + MINIMUM_BID_INCREMENT THEN "InvalidBid"
    ELSE None

TimeAmountError(time_remaining_ms, amount, current_high) ==
    IF time_remaining_ms <= 0 THEN "AuctionClosed"
    ELSE IF amount < current_high + MINIMUM_BID_INCREMENT THEN "InvalidBid"
    ELSE None

\* step 2 and 3 on the attempt counted in the hash (not what the code does)
PbCheckTime_CountsAttempt(u) ==
    /\ pb[u].pc = "end_time"
    /\ LET end_time_ms == EndKeyValue
           time_remaining_ms == end_time_ms - now
           error == TimeAmountError(time_remaining_ms, pb[u].amount,
                                    pb[u].current_high)
       IN  IF error # None THEN Return(u, error)
           ELSE pb' = [pb EXCEPT ![u].pc = "stamp",
                                 ![u].end_time_ms = end_time_ms,
                                 ![u].time_remaining = time_remaining_ms]
    /\ state' = [state EXCEPT !.bid_count = @ + 1]
    /\ UNCHANGED <<endKey, topBids, events, timerEvents, bidQueue,
                   bidDedup, accepted, calls>>
    /\ BidFrame

\* step 2 and 3: GET of the end-time key, expiry check, minimum amount
PbCheckTime(u) ==
    /\ pb[u].pc = "end_time"
    /\ LET end_time_ms == EndKeyValue
           time_remaining_ms == end_time_ms - now
           error == TimeAmountError(time_remaining_ms, pb[u].amount,
                                    pb[u].current_high)
       IN  IF error # None THEN Return(u, error)
           ELSE pb' = [pb EXCEPT ![u].pc = "stamp",
                                 ![u].end_time_ms = end_time_ms,
                                 ![u].time_remaining = time_remaining_ms]
    /\ UNCHANGED <<state, endKey, topBids, events, timerEvents, bidQueue,
                   bidDedup, accepted, calls>>
    /\ BidFrame

\* step 4, first half: timestamp = get_current_timestamp_ms()
PbStamp(u) ==
    /\ pb[u].pc = "stamp"
    /\ pb' = [pb EXCEPT ![u].pc = "script", ![u].timestamp = now]
    /\ UNCHANGED <<state, endKey, topBids, events, timerEvents, bidQueue,
                   bidDedup, accepted, calls>>
    /\ BidFrame

\* step 4, second half: the commit script; "outbid" when it returns 0
PbScript(u) ==
    /\ pb[u].pc = "script"
    /\ state' = BID_COMPARISON_SCRIPT(state, pb[u].amount, u)
    /\ IF ScriptAccepts(state, pb[u].amount)
       THEN /\ pb' = [pb EXCEPT ![u].pc = "zadd",
                                  ![u].bid_id = Len(accepted) + 1]
            /\ accepted' = Append(accepted,
                   [user |-> u, amount |-> pb[u].amount,
                    timestamp |-> pb[u].timestamp])
       ELSE /\ pb' = [pb EXCEPT ![u] = Outbid(pb[u])]
            /\ UNCHANGED accepted
    /\ UNCHANGED <<endKey, topBids, events, timerEvents, bidQueue, bidDedup,
                   calls>>
    /\ BidFrame

\* step 6 without its condition: every accepted bid asks for an extension
AfterLeaderboard_Always(u) == "as_read"

\* step 6: the anti-snipe condition, on the time remaining computed in step 2
AfterLeaderboard(u) ==
    IF pb[u].time_remaining < ANTI_SNIPE_THRESHOLD THEN "as_read" ELSE "publish"

\* step 5, add_top_bid: ZADD
PbZAdd(u) ==
    /\ pb[u].pc = "zadd"
    /\ topBids' = ZAdd(topBids, u, pb[u].amount)
    /\ pb' = [pb EXCEPT ![u].pc = "zcard"]
    /\ UNCHANGED <<state, endKey, events, timerEvents, bidQueue, bidDedup,
                   accepted, calls>>
    /\ BidFrame

\* add_top_bid: ZCARD
PbZCard(u) ==
    /\ pb[u].pc = "zcard"
    /\ LET count == Cardinality(topBids)
       IN  pb' = [pb EXCEPT ![u].pc = IF count > 3 THEN "zrem"
                                      ELSE AfterLeaderboard(u),
                            ![u].count = IF count > 3 THEN count ELSE 0]
    /\ UNCHANGED <<state, endKey, topBids, events, timerEvents, bidQueue,
                   bidDedup, accepted, calls>>
    /\ BidFrame

\* add_top_bid: ZREMRANGEBYRANK key 0 count-4
PbZRem(u) ==
    /\ pb[u].pc = "zrem"
    /\ topBids' = RemoveLowest(topBids, pb[u].count - 3)
    /\ pb' = [pb EXCEPT ![u].pc = AfterLeaderboard(u), ![u].count = 0]
    /\ UNCHANGED <<state, endKey, events, timerEvents, bidQueue, bidDedup,
                   accepted, calls>>
    /\ BidFrame

\* _handle_anti_snipe: HGETALL, the check against the maximum
MaxExtensionsReached_OffByOne(count) == count > MAX_ANTI_SNIPE_EXTENSIONS

MaxExtensionsReached(count) == count >= MAX_ANTI_SNIPE_EXTENSIONS

AsRead(u) ==
    /\ pb[u].pc = "as_read"
    /\ LET anti_snipe_count == state.anti_snipe_count
       IN  IF MaxExtensionsReached(anti_snipe_count)
           THEN pb' = [pb EXCEPT ![u].pc = "publish"]
           ELSE pb' = [pb EXCEPT ![u].pc = "as_set_key",
                                 ![u].count = anti_snipe_count]
    /\ UNCHANGED <<state, endKey, topBids, events, timerEvents, bidQueue,
                   bidDedup, accepted, calls>>
    /\ BidFrame

\* new_end_time_ms = current_end_time_ms + extension_ms, from the end time
\* this call read in step 2
NewEndTime(u) == pb[u].end_time_ms + ANTI_SNIPE_EXTENSION

\* _handle_anti_snipe: SET of the end-time key (the key loses its TTL)
AsSetKey(u) ==
    /\ pb[u].pc = "as_set_key"
    /\ endKey' = {NewEndTime(u)}
    /\ pb' = [pb EXCEPT ![u].pc = "as_set_end"]
    /\ UNCHANGED <<state, topBids, events, timerEvents, bidQueue, bidDedup,
                   accepted, calls>>
    /\ BidFrame

\* _handle_anti_snipe: HSET end_time
AsSetEnd(u) ==
    /\ pb[u].pc = "as_set_end"
    /\ state' = [state EXCEPT !.exists = TRUE, !.end_time = NewEndTime(u)]
    /\ pb' = [pb EXCEPT ![u].pc = "as_set_count"]
    /\ UNCHANGED <<endKey, topBids, events, timerEvents, bidQueue, bidDedup,
                   accepted, calls>>
    /\ BidFrame

\* _handle_anti_snipe: HSET anti_snipe_count
AsSetCount(u) ==
    /\ pb[u].pc = "as_set_count"
    /\ state' = [state EXCEPT !.exists = TRUE,
                              !.anti_snipe_count = pb[u].count + 1]
    /\ pb' = [pb EXCEPT ![u].pc = "as_publish"]
    /\ UNCHANGED <<endKey, topBids, events, timerEvents, bidQueue, bidDedup,
                   accepted, calls>>
    /\ BidFrame

\* _handle_anti_snipe: PUBLISH on the timer channel, return True
AsPublish(u) ==
    /\ pb[u].pc = "as_publish"
    /\ timerEvents' = timerEvents \cup
          {[type |-> "anti_snipe", new_end_time |-> NewEndTime(u),
            extension_count |-> pb[u].count + 1]}
    /\ pb' = [pb EXCEPT ![u].pc = "publish", ![u].snipe = TRUE, ![u].count = 0]
    /\ UNCHANGED <<state, endKey, topBids, events, bidQueue, bidDedup,
                   accepted, calls>>
    /\ BidFrame

\* step 7: PUBLISH of the bid event on the events channel
PbPublish(u) ==
    /\ pb[u].pc = "publish"
    /\ events' = events \cup
          {[type |-> "bid", user_id |-> u, amount |-> pb[u].amount,
            timestamp |-> pb[u].timestamp,
            anti_snipe_triggered |-> pb[u].snipe]}
    /\ pb' = [pb EXCEPT ![u].pc = "enqueue"]
    /\ UNCHANGED <<state, endKey, topBids, timerEvents, bidQueue, bidDedup,
                   accepted, calls>>
    /\ BidFrame

\* MessageDeduplicationId of send_bid_message: auction id and timestamp
\* (one auction, so the timestamp)
BidDedupId(timestamp) == timestamp

\* step 8: send_bid_message to the FIFO queue.  The queue accepts a message
\* whose deduplication id it has already seen without delivering it.
PbEnqueue(u) ==
    /\ pb[u].pc = "enqueue"
    /\ LET bid_data == [bid_id |-> pb[u].bid_id, user_id |-> u,
                        amount |-> pb[u].amount,
                        timestamp |-> pb[u].timestamp]
           id == BidDedupId(pb[u].timestamp)
       IN  IF id \in bidDedup
           THEN UNCHANGED <<bidQueue, bidDedup>>
           ELSE /\ bidQueue' = Append(bidQueue, bid_data)
                /\ bidDedup' = bidDedup \cup {id}
    /\ Return(u, "success")
    /\ UNCHANGED <<state, endKey, topBids, events, timerEvents, accepted,
                   calls>>
    /\ BidFrame

process_bid(u) ==
    \/ PbReadState(u) \/ PbCheckTime(u) \/ PbStamp(u) \/ PbScript(u)
    \/ PbZAdd(u) \/ PbZCard(u) \/ PbZRem(u)
    \/ AsRead(u) \/ AsSetKey(u) \/ AsSetEnd(u) \/ AsSetCount(u) \/ AsPublish(u)
    \/ PbPublish(u) \/ PbEnqueue(u)

\* the positions of a call whose bid the commit script has accepted
PostCommit == {"zadd", "zcard", "zrem", "as_read", "as_set_key",
               "as_set_end", "as_set_count", "as_publish", "publish",
               "enqueue"}

\* what a failing command does to the call: inside _handle_anti_snipe and
\* inside _enqueue_bid_for_persistence the exception is caught (return False,
\* resp. nothing); in add_top_bid and in publish_event it leaves process_bid
\* through "except Exception: raise", and the route answers 500
AfterFailure(c) ==
    IF c.pc \in {"as_read", "as_set_key", "as_set_end", "as_set_count",
                 "as_publish"}
    THEN [c EXCEPT !.pc = "publish", !.snipe = FALSE, !.count = 0]
    ELSE IF c.pc = "enqueue"
    THEN Answered("success")
    ELSE Answered("error")

\* the Redis or SQS command a post-commit step of u is about to issue raises
PbFail(u) ==
    /\ pb[u].pc \in PostCommit
    /\ faults < MaxFaults
    /\ faults' = faults + 1
    /\ pb' = [pb EXCEPT ![u] = AfterFailure(pb[u])]
    /\ UNCHANGED <<now, ticks, state, endKey, topBids, events, timerEvents,
                   bidQueue, bidDedup, calls, accepted, activeKey, db, tm,
                   cl, closes, closeLog, notifQueue, notifDedup,
                   consumerVars, mgVars, wsVars, ps, us>>

\* ---------------------------------------------------------------- timer service
\* seconds between two _sync_with_database runs
SYNC_PERIOD == 60

\* users with a row in the users table (email is not nullable there)
Registered == {"host", "p2", "p3", "u1", "u2"}

TimerFrame == UNCHANGED <<now, ticks, pb, calls, accepted, bidQueue, bidDedup,
                          cl, closes, consumerVars, mgVars, wsVars, ps, us>>

\* locals of one loop iteration
TimerLocals(active, last_sync_time) ==
    [pc |-> "loop", active |-> active, last_sync_time |-> last_sync_time,
     current_time |-> 0, end_time_ms |-> 0, st |-> NoState,
     winner_id |-> None, current_high_bid |-> 0, ended_at |-> 0,
     top_bids |-> << >>, ended |-> FALSE]

\* _process_auction_timer returns: back in _timer_loop
TmReturn(ended) ==
    tm' = [TimerLocals(tm.active, tm.last_sync_time) EXCEPT
              !.pc = "after", !.current_time = tm.current_time,
              !.ended = ended]

\* _timer_loop: top of one iteration, for auction_id in list(active_auctions)
TmLoop ==
    /\ tm.pc = "loop"
    /\ tm' = [tm EXCEPT !.current_time = now,
                        !.pc = IF tm.active THEN "get_key" ELSE "after"]
    /\ UNCHANGED <<state, endKey, topBids, activeKey, events, timerEvents,
                   db, faults, closeLog, notifQueue, notifDedup>>
    /\ TimerFrame

\* _process_auction_timer: GET of the end-time key
TmGetKey ==
    /\ tm.pc = "get_key"
    /\ tm' = IF endKey # {}
             THEN [tm EXCEPT !.pc = "compare", !.end_time_ms = EndKeyValue]
             ELSE [tm EXCEPT !.pc = "fb_state"]
    /\ UNCHANGED <<state, endKey, topBids, activeKey, events, timerEvents,
                   db, faults, closeLog, notifQueue, notifDedup>>
    /\ TimerFrame

\* fallback (ii): HGETALL, end_time of the live state
TmFbState ==
    /\ tm.pc = "fb_state"
    /\ tm' = IF state.exists /\ state.end_time # 0
             THEN [tm EXCEPT !.pc = "fb_state_setex",
                             !.end_time_ms = state.end_time]
             ELSE [tm EXCEPT !.pc = "fb_db"]
    /\ UNCHANGED <<state, endKey, topBids, activeKey, events, timerEvents,
                   db, faults, closeLog, notifQueue, notifDedup>>
    /\ TimerFrame

\* fallback (ii): the dedicated key is set again when the row has a duration
TmFbStateSetex ==
    /\ tm.pc = "fb_state_setex"
    /\ endKey' = IF db.exists THEN {tm.end_time_ms} ELSE endKey
    /\ tm' = [tm EXCEPT !.pc = "compare"]
    /\ UNCHANGED <<state, topBids, activeKey, events, timerEvents,
                   db, faults, closeLog, notifQueue, notifDedup>>
    /\ TimerFrame

\* fallback (iii): created_at + duration, moved to now + duration when past
CalculatedEndTime ==
    LET end_time_ms == db.created_at + db.duration
    IN  IF end_time_ms <= now THEN now + db.duration ELSE end_time_ms

TmFbDb ==
    /\ tm.pc = "fb_db"
    /\ IF ~db.exists \/ db.status # "live"
       THEN TmReturn(TRUE)
       ELSE tm' = [tm EXCEPT !.pc = "fb_setex",
                             !.end_time_ms = CalculatedEndTime]
    /\ UNCHANGED <<state, endKey, topBids, activeKey, events, timerEvents,
                   db, faults, closeLog, notifQueue, notifDedup>>
    /\ TimerFrame

TmFbSetex ==
    /\ tm.pc = "fb_setex"
    /\ endKey' = {tm.end_time_ms}
    /\ tm' = [tm EXCEPT !.pc = "fb_get_state"]
    /\ UNCHANGED <<state, topBids, activeKey, events, timerEvents,
                   db, faults, closeLog, notifQueue, notifDedup>>
    /\ TimerFrame

TmFbGetState ==
    /\ tm.pc = "fb_get_state"
    /\ tm' = [tm EXCEPT !.pc = IF state.exists THEN "fb_hset_end"
                               ELSE "fb_set_state"]
    /\ UNCHANGED <<state, endKey, topBids, activeKey, events, timerEvents,
                   db, faults, closeLog, notifQueue, notifDedup>>
    /\ TimerFrame

\* set_auction_state(state_data): HSET with a mapping writes these fields
TmFbSetState ==
    /\ tm.pc = "fb_set_state"
    /\ state' = [state EXCEPT !.exists = TRUE, !.status = "live",
                              !.host_user_id = db.host_user_id,
                              !.current_high_bid = db.starting_bid,
                              !.end_time = tm.end_time_ms,
                              !.bid_count = 0]
    /\ tm' = [tm EXCEPT !.pc = "fb_set_active"]
    /\ UNCHANGED <<endKey, topBids, activeKey, events, timerEvents,
                   db, faults, closeLog, notifQueue, notifDedup>>
    /\ TimerFrame

TmFbSetActive ==
    /\ tm.pc = "fb_set_active"
    /\ activeKey' = TRUE
    /\ tm' = [tm EXCEPT !.pc = "compare"]
    /\ UNCHANGED <<state, endKey, topBids, events, timerEvents,
                   db, faults, closeLog, notifQueue, notifDedup>>
    /\ TimerFrame

TmFbHsetEnd ==
    /\ tm.pc = "fb_hset_end"
    /\ state' = [state EXCEPT !.exists = TRUE, !.end_time = tm.end_time_ms]
    /\ tm' = [tm EXCEPT !.pc = "compare"]
    /\ UNCHANGED <<endKey, topBids, activeKey, events, timerEvents,
                   db, faults, closeLog, notifQueue, notifDedup>>
    /\ TimerFrame

\* the auction has ended when no time remains
Expired(end_time_ms) == end_time_ms - now <= 0

\* _process_auction_timer: expiry check, else _broadcast_timer_update
TmCompare ==
    /\ tm.pc = "compare"
    /\ IF Expired(tm.end_time_ms)
       THEN /\ tm' = [tm EXCEPT !.pc = "end_read_state"]
            /\ UNCHANGED timerEvents
       ELSE /\ timerEvents' = timerEvents \cup
                 {[type |-> "timer_sync", sync_type |-> "heartbeat",
                   auction_end_time |-> tm.end_time_ms,
                   time_remaining |-> tm.end_time_ms - now]}
            /\ TmReturn(FALSE)
    /\ UNCHANGED <<state, endKey, topBids, activeKey, events,
                   db, faults, closeLog, notifQueue, notifDedup>>
    /\ TimerFrame

\* _handle_auction_end: HGETALL of the live state
TmEndReadState ==
    /\ tm.pc = "end_read_state"
    /\ tm' = [tm EXCEPT !.pc = "end_db", !.st = state]
    /\ UNCHANGED <<state, endKey, topBids, activeKey, events, timerEvents,
                   db, faults, closeLog, notifQueue, notifDedup>>
    /\ TimerFrame

\* _handle_auction_end: query of the row; price and winner from the hash read
TmEndDb ==
    /\ tm.pc = "end_db"
    /\ IF ~db.exists
       THEN TmReturn(TRUE)
       ELSE tm' = [tm EXCEPT
                     !.pc = "end_top_bids",
                     !.ended_at = now,
                     !.current_high_bid =
                         IF tm.st.current_high_bid # 0
                         THEN tm.st.current_high_bid ELSE db.starting_bid,
                     !.winner_id = tm.st.high_bidder_id]
    /\ UNCHANGED <<state, endKey, topBids, activeKey, events, timerEvents,
                   db, faults, closeLog, notifQueue, notifDedup>>
    /\ TimerFrame

RECURSIVE Descending(_)
\* ZREVRANGE key 0 -1 WITHSCORES: the members from the highest rank down
Descending(S) ==
    IF S = {} THEN << >>
    ELSE LET m == CHOOSE x \in S : \A y \in S \ {x} : Below(y, x)
         IN  <<m>> \o Descending(S \ {m})

\* get_top_bids(auction_id, limit = 3)
GetTopBids ==
    LET all == Descending(topBids)
    IN  IF Len(all) > 3 THEN SubSeq(all, 1, 3) ELSE all

\* _handle_auction_end: the leaderboard; the winner is its top when the hash
\* names no high bidder
TmEndTopBids ==
    /\ tm.pc = "end_top_bids"
    /\ LET top_bids == GetTopBids
       IN  tm' = [tm EXCEPT
                    !.pc = "end_commit",
                    !.top_bids = top_bids,
                    !.winner_id = IF @ = None /\ top_bids # << >>
                                  THEN top_bids[1][1] ELSE @]
    /\ UNCHANGED <<state, endKey, topBids, activeKey, events, timerEvents,
                   db, faults, closeLog, notifQueue, notifDedup>>
    /\ TimerFrame

\* _handle_auction_end: db.commit() of status, ended_at and the winner; a
\* failing commit is rolled back and the handler returns
TmEndCommit ==
    /\ tm.pc = "end_commit"
    /\ \/ /\ db' = [db EXCEPT
                      !.status = "closed",
                      !.ended_at = {tm.ended_at},
                      !.winner_id = IF tm.winner_id # None
                                    THEN tm.winner_id ELSE @,
                      !.winning_bid = IF tm.winner_id # None
                                      THEN {tm.current_high_bid} ELSE @]
          /\ closeLog' = [closeLog EXCEPT !.ended_at = @ + 1]
          /\ tm' = [tm EXCEPT !.pc = "end_set_status"]
          /\ UNCHANGED faults
       \/ /\ faults < MaxFaults
          /\ faults' = faults + 1
          /\ TmReturn(TRUE)
          /\ UNCHANGED <<db, closeLog>>
    /\ UNCHANGED <<state, endKey, topBids, activeKey, events, timerEvents,
                   notifQueue, notifDedup>>
    /\ TimerFrame

\* _handle_auction_end: HSET status closed; a failing command ends the handler
TmEndSetStatus ==
    /\ tm.pc = "end_set_status"
    /\ \/ /\ state' = [state EXCEPT !.exists = TRUE, !.status = "closed"]
          /\ tm' = [tm EXCEPT !.pc = "end_publish"]
          /\ UNCHANGED faults
       \/ /\ faults < MaxFaults
          /\ faults' = faults + 1
          /\ TmReturn(TRUE)
          /\ UNCHANGED state
    /\ UNCHANGED <<endKey, topBids, activeKey, events, timerEvents,
                   db, closeLog, notifQueue, notifDedup>>
    /\ TimerFrame

\* _handle_auction_end: PUBLISH auction_end on the events channel
TmEndPublish ==
    /\ tm.pc = "end_publish"
    /\ events' = events \cup
          {[type |-> "auction_end", winner_id |-> tm.winner_id,
            winning_bid |-> tm.current_high_bid, end_time |-> now]}
    /\ closeLog' = [closeLog EXCEPT !.auction_end = @ + 1]
    /\ tm' = [tm EXCEPT !.pc = "end_publish_timer"]
    /\ UNCHANGED <<state, endKey, topBids, activeKey, timerEvents,
                   db, faults, notifQueue, notifDedup>>
    /\ TimerFrame

\* _handle_auction_end: PUBLISH the final timer_sync on the timer channel
TmEndPublishTimer ==
    /\ tm.pc = "end_publish_timer"
    /\ timerEvents' = timerEvents \cup
          {[type |-> "timer_sync", sync_type |-> "final",
            auction_end_time |-> 0, time_remaining |-> 0]}
    /\ tm' = [tm EXCEPT !.pc = "end_notify"]
    /\ UNCHANGED <<state, endKey, topBids, activeKey, events,
                   db, faults, closeLog, notifQueue, notifDedup>>
    /\ TimerFrame

\* participant_ids: the users of the leaderboard read, without duplicates
ParticipantIds(top_bids) == {top_bids[i][1] : i \in 1..Len(top_bids)}

\* the auction_closed message: the winner (with an address when registered)
\* and the registered participants other than the winner
NotificationData_EveryUser(winner_id, top_bids, final_price) ==
    [type |-> "auction_closed",
     final_price |-> final_price,
     winner |-> winner_id,
     winner_email |-> winner_id \in Registered,
     losers |-> Registered \ {winner_id},
     timestamp |-> now]
NotificationData(winner_id, top_bids, final_price) ==
    [type |-> "auction_closed",
     final_price |-> final_price,
     winner |-> winner_id,
     winner_email |-> winner_id \in Registered,
     losers |-> (ParticipantIds(top_bids) \ {winner_id}) \cap Registered,
     timestamp |-> now]

\* MessageDeduplicationId of send_notification_message
NotifDedupId(timestamp) == timestamp

\* _handle_auction_end: _fetch_user_map and send_notification_message
TmEndNotify ==
    /\ tm.pc = "end_notify"
    /\ LET notification_data ==
              NotificationData(tm.winner_id, tm.top_bids, tm.current_high_bid)
           id == NotifDedupId(notification_data.timestamp)
       IN  IF id \in notifDedup
           THEN UNCHANGED <<notifQueue, notifDedup>>
           ELSE /\ notifQueue' = Append(notifQueue, notification_data)
                /\ notifDedup' = notifDedup \cup {id}
    /\ closeLog' = [closeLog EXCEPT !.settlement = @ + 1]
    /\ TmReturn(TRUE)
    /\ UNCHANGED <<state, endKey, topBids, activeKey, events, timerEvents,
                   db, faults>>
    /\ TimerFrame

\* the auction leaves active_auctions when _process_auction_timer returned True
StillActive(active, ended) == active /\ ~ended

\* _timer_loop: active_auctions -= auctions_to_remove, then the periodic sync
\* or the sleep
TmAfter ==
    /\ tm.pc = "after"
    /\ tm' = [tm EXCEPT
                !.active = StillActive(tm.active, tm.ended),
                !.ended = FALSE,
                !.pc = IF tm.current_time - tm.last_sync_time > SYNC_PERIOD
                       THEN "sync" ELSE "loop"]
    /\ UNCHANGED <<state, endKey, topBids, activeKey, events, timerEvents,
                   db, faults, closeLog, notifQueue, notifDedup>>
    /\ TimerFrame

\* _sync_with_database: the live auctions are added; an auction of the set
\* that is no longer live is checked against Redis
TmSyncQuery ==
    /\ tm.pc = "sync"
    /\ LET live == db.exists /\ db.status = "live"
       IN  tm' = IF live
                 THEN [tm EXCEPT !.active = TRUE, !.pc = "loop",
                                 !.last_sync_time = tm.current_time]
                 ELSE IF tm.active
                 THEN [tm EXCEPT !.pc = "sync_state"]
                 ELSE [tm EXCEPT !.pc = "loop",
                                 !.last_sync_time = tm.current_time]
    /\ UNCHANGED <<state, endKey, topBids, activeKey, events, timerEvents,
                   db, faults, closeLog, notifQueue, notifDedup>>
    /\ TimerFrame

\* _sync_with_database: removed only when Redis says closed
TmSyncState ==
    /\ tm.pc = "sync_state"
    /\ tm' = [tm EXCEPT !.active = IF state.status = "closed" THEN FALSE ELSE @,
                        !.pc = "loop",
                        !.last_sync_time = tm.current_time]
    /\ UNCHANGED <<state, endKey, topBids, activeKey, events, timerEvents,
                   db, faults, closeLog, notifQueue, notifDedup>>
    /\ TimerFrame

Timer ==
    \/ TmLoop \/ TmGetKey \/ TmFbState \/ TmFbStateSetex \/ TmFbDb
    \/ TmFbSetex \/ TmFbGetState \/ TmFbSetState \/ TmFbSetActive
    \/ TmFbHsetEnd \/ TmCompare \/ TmEndReadState \/ TmEndDb
    \/ TmEndTopBids \/ TmEndCommit \/ TmEndSetStatus \/ TmEndPublish
    \/ TmEndPublishTimer \/ TmEndNotify \/ TmAfter \/ TmSyncQuery
    \/ TmSyncState

\* ---------------------------------------------------------------- manual close
CloseFrame == UNCHANGED <<now, ticks, pb, calls, accepted, bidQueue, bidDedup,
                          tm, faults, notifQueue, notifDedup, endKey, topBids,
                          events, timerEvents, consumerVars, mgVars,
                          wsVars, ps, us>>

\* the close route: "return jsonify(result), 200" whatever close_auction
\* returned, the (body, status) pair of the service's error returns included
CloseRouteStatus(result) == 200

\* close_auction(auction_id, user_id): the query, the host check and the
\* commit of status and ended_at
ClCommit(u) ==
    /\ cl.pc = "idle"
    /\ closes < MaxCloses
    /\ closes' = closes + 1
    /\ IF ~db.exists
       THEN /\ cl' = [pc |-> "idle", user |-> u, result |-> 404,
                         http |-> CloseRouteStatus(404)]
            /\ UNCHANGED <<db, closeLog>>
       ELSE IF db.host_user_id # u
       THEN /\ cl' = [pc |-> "idle", user |-> u, result |-> 403,
                         http |-> CloseRouteStatus(403)]
            /\ UNCHANGED <<db, closeLog>>
       ELSE /\ db' = [db EXCEPT !.status = "closed", !.ended_at = {now}]
            /\ closeLog' = [closeLog EXCEPT !.ended_at = @ + 1]
            /\ cl' = [pc |-> "delete_active", user |-> u, result |-> 0,
                         http |-> 0]
    /\ UNCHANGED <<state, activeKey>>
    /\ CloseFrame

\* close_auction: DELETE of the active key
ClDeleteActive ==
    /\ cl.pc = "delete_active"
    /\ activeKey' = FALSE
    /\ cl' = [cl EXCEPT !.pc = "set_status"]
    /\ UNCHANGED <<state, db, closes, closeLog>>
    /\ CloseFrame

\* close_auction: HSET status closed, then the success answer
ClSetStatus ==
    /\ cl.pc = "set_status"
    /\ state' = [state EXCEPT !.exists = TRUE, !.status = "closed"]
    /\ cl' = [cl EXCEPT !.pc = "idle", !.result = 200,
                       !.http = CloseRouteStatus(200)]
    /\ UNCHANGED <<activeKey, db, closes, closeLog>>
    /\ CloseFrame

close_auction == (\E u \in {Host, "u1"} : ClCommit(u)) \/ ClDeleteActive \/ ClSetStatus

\* ---------------------------------------------------------------- consumers
AllUsers == {MemberOrder[i] : i \in 1..Len(MemberOrder)}

ConsumerFrame ==
    UNCHANGED <<now, ticks, state, endKey, topBids, events, timerEvents,
                bidDedup, pb, calls, accepted, activeKey, db, tm, cl, closes,
                faults, closeLog, notifDedup, mgVars, wsVars, ps, us>>

\* persist_bid: the items expire 90 days after they were written (seconds)
BID_TTL == 7776000

\* persist_bid: the item of a bid message, prepared at time t
BidItem(bid_data, t) ==
    [bid_id |-> bid_data.bid_id, user_id |-> bid_data.user_id,
     amount |-> bid_data.amount, timestamp |-> bid_data.timestamp,
     ttl_expiry |-> t + BID_TTL]

\* put_item without a key: the item is added to the others (not what
\* DynamoDB does)
PutItem_Append(table, item) == table \cup {item}

\* persist_bid: put_item under the key (auction_id, timestamp#user_id); an
\* item with the same key is replaced
PutItem(table, item) ==
    {r \in table : ~(r.timestamp = item.timestamp
                     /\ r.user_id = item.user_id)} \cup {item}

\* bid-persistence lambda_handler on the next record of the bid queue.  The
\* queue delivers at least once: the record is deleted after the handler
\* returned, or becomes visible again.
PersistBid ==
    /\ bidQueue # << >>
    /\ bidsTable' = PutItem(bidsTable, BidItem(Head(bidQueue), now))
    /\ \/ /\ bidQueue' = Tail(bidQueue)
          /\ UNCHANGED redeliveries
       \/ /\ redeliveries < MaxRedeliveries
          /\ redeliveries' = redeliveries + 1
          /\ UNCHANGED bidQueue
    /\ UNCHANGED <<notifQueue, emails>>
    /\ ConsumerFrame

\* the addresses process_auction_closed_notification sends to: the winner
\* when it has an email, every loser that has one
Recipients(data) ==
    (IF data.winner # None /\ data.winner_email THEN {data.winner} ELSE {})
        \cup data.losers

\* process_auction_closed_notification: one send_email per recipient
SendEmails(sent, data) ==
    [r \in DOMAIN sent |->
        IF r \in Recipients(data) THEN sent[r] + 1 ELSE sent[r]]

\* auction-notifications lambda_handler on the next record of the
\* notification queue.  The queue delivers at least once: the record is
\* deleted after the handler returned, or becomes visible again.
NotifyDeliver ==
    /\ notifQueue # << >>
    /\ emails' = SendEmails(emails, Head(notifQueue))
    /\ \/ /\ notifQueue' = Tail(notifQueue)
          /\ UNCHANGED redeliveries
       \/ /\ redeliveries < MaxRedeliveries
          /\ redeliveries' = redeliveries + 1
          /\ UNCHANGED notifQueue
    /\ UNCHANGED <<bidQueue, bidsTable>>
    /\ ConsumerFrame

\* ---------------------------------------------------------------- users
\* number of get_or_create_user_from_cognito calls in one behaviour
MaxUserCalls == 3

\* a text is the sequence of its parts; the empty text stands for None and ""
NoText == << >>

\* the row of a user synchronized earlier
UserRow(u) == [user_id |-> u, email |-> <<u>>, username |-> <<u>>,
               name |-> None]

\* Cognito subjects that authenticate: one without a row, one with a row
Subjects == {"p1", "u1"}

\* user info of a verified token: sub, email, cognito:username and name
\* claims, each of the last three possibly absent
CognitoInfos ==
    [user_id : Subjects, email : {NoText, <<"p1">>, <<"host">>, <<"p2">>},
     username : {NoText, <<"p1">>, <<"p3">>}, name : {None, "A", "B"}]

\* primary key user_id, unique email, unique username
UniqueRows(rows) ==
    \A r, q \in rows :
        r # q => /\ r.user_id # q.user_id
                 /\ r.email # q.email
                 /\ r.username # q.username

\* f"{username}_{str(user_uuid)[:8]}"
Suffixed(username, sub) == username \o <<"_", sub>>

\* _apply_cognito_fields: the row with the fields of the token that are
\* given and differ; the username only when no other row has it
ApplyCognitoFields(rows, user, info) ==
    [user EXCEPT
        !.email = IF info.email # NoText THEN info.email ELSE @,
        !.name = IF info.name # None THEN info.name ELSE @,
        !.username =
            IF /\ info.username # NoText
               /\ ~\E r \in rows : /\ r.username = info.username
                                   /\ r.user_id # user.user_id
            THEN info.username ELSE @]

\* the commit of a changed row: what the call returns and the table after
\* it.  An IntegrityError of the commit reaches "except Exception" of
\* get_or_create_user_from_cognito: rollback, return None.
UpdateExisting(rows, a, user, info) ==
    LET new == ApplyCognitoFields(rows, user, info)
        after == (rows \ {user}) \cup {new}
    IN  IF new = user THEN [rows |-> rows, ret |-> {user}, db |-> a]
        ELSE IF UniqueRows(after)
        THEN [rows |-> after, ret |-> {new}, db |-> a]
        ELSE [rows |-> rows, ret |-> {}, db |-> a]

\* the same for the row found by email, whose failing commit is rolled back
\* inside the branch: the row is returned as it is stored
ReuseByEmail(rows, a, user, info) ==
    LET new == ApplyCognitoFields(rows, user, info)
        after == (rows \ {user}) \cup {new}
    IN  IF new # user /\ UniqueRows(after)
        THEN [rows |-> after, ret |-> {new}, db |-> a]
        ELSE [rows |-> rows, ret |-> {user}, db |-> a]

\* the creation of the row of the subject: the username of the token, or the
\* local part of the email, with a suffix when it is taken
CreateUser(rows, a, info) ==
    LET taken(n) == \E r \in rows : r.username = n
        first == IF info.username # NoText THEN info.username
                 ELSE IF taken(info.email)
                 THEN Suffixed(info.email, info.user_id) ELSE info.email
        username == IF taken(first) THEN Suffixed(first, info.user_id)
                    ELSE first
        user == [user_id |-> info.user_id, email |-> info.email,
                 username |-> username, name |-> info.name]
    IN  IF UniqueRows(rows \cup {user})
        THEN [rows |-> rows \cup {user}, ret |-> {user}, db |-> a]
        ELSE [rows |-> rows, ret |-> {r \in rows : r.email = info.email},
              db |-> a]

\* the row with the email of the token belongs to another user_id and
\* auctions refer to it: a row is inserted under the subject, the auctions
\* are re-pointed and the legacy row is deleted, in one transaction
MigrateLegacy(rows, a, legacy, info) ==
    LET new == [user_id |-> info.user_id, email |-> legacy.email,
                username |-> IF info.username # NoText THEN info.username
                             ELSE legacy.username,
                name |-> IF info.name # None THEN info.name
                         ELSE legacy.name]
        after == (rows \ {legacy}) \cup {new}
        moved == [a EXCEPT
                    !.host_user_id = IF @ = legacy.user_id THEN info.user_id
                                     ELSE @,
                    !.winner_id = IF @ = legacy.user_id THEN info.user_id
                                  ELSE @]
    IN  IF UniqueRows(after)
        THEN ReuseByEmail(after, moved, new, info)
        ELSE ReuseByEmail(rows, a, legacy, info)

\* get_or_create_user_from_cognito(cognito_user_info) on the users table
\* rows and the auction row a
GetOrCreateUser(rows, a, info) ==
    LET byId == {r \in rows : r.user_id = info.user_id}
        byEmail == {r \in rows : r.email = info.email}
    IN  IF byId # {}
        THEN UpdateExisting(rows, a, CHOOSE r \in byId : TRUE, info)
        ELSE IF info.email = NoText
        THEN [rows |-> rows, ret |-> {}, db |-> a]
        ELSE IF byEmail = {} THEN CreateUser(rows, a, info)
        ELSE LET legacy == CHOOSE r \in byEmail : TRUE
                 referred == a.exists /\ (a.host_user_id = legacy.user_id
                                          \/ a.winner_id = legacy.user_id)
             IN  IF referred THEN MigrateLegacy(rows, a, legacy, info)
                 ELSE CreateUser(rows \ {legacy}, a, info)

\* one call, as require_auth makes it for the user info of the token
get_or_create_user_from_cognito(info) ==
    /\ us.calls < MaxUserCalls
    /\ LET out == GetOrCreateUser(us.rows, db, info)
       IN  /\ us' = [rows |-> out.rows, ret |-> out.ret,
                     calls |-> us.calls + 1, info |-> {info}]
           /\ db' = out.db
    /\ UNCHANGED <<now, ticks, state, endKey, topBids, events, timerEvents,
                   bidQueue, bidDedup, pb, calls, accepted, activeKey, tm,
                   cl, closes, faults, closeLog, notifQueue, notifDedup,
                   consumerVars, mgVars, wsVars, ps>>

\* ---------------------------------------------------------------- place_bid
\* os.getenv("MINIMUM_BID_INCREMENT", "1") of the auction-management service
MGMT_MINIMUM_BID_INCREMENT == 1

MgFrame ==
    UNCHANGED <<now, ticks, endKey, timerEvents, bidQueue, bidDedup, pb,
                calls, accepted, activeKey, db, tm, cl, closes, faults,
                closeLog, notifQueue, notifDedup, consumerVars, wsVars, ps, us>>

IdleMgCall ==
    [pc |-> "idle", amount |-> 0, current_high_bid |-> 0, bid_count |-> 0,
     is_new_high |-> FALSE, count |-> 0, result |-> None]

MgReturn(u, r) == mg' = [mg EXCEPT ![u] = [IdleMgCall EXCEPT !.result = r]]

\* step 1 and 2: the auction row, its status, the host check
MgValidate(u) ==
    /\ mg[u].pc = "idle"
    /\ mgCalls < MaxMgCalls
    /\ mgCalls' = mgCalls + 1
    /\ \E amount \in Amounts :
         IF ~db.exists THEN MgReturn(u, "AuctionNotFound")
         ELSE IF db.status # "live" THEN MgReturn(u, "AuctionClosed")
         ELSE IF db.host_user_id = u THEN MgReturn(u, "Forbidden")
         ELSE mg' = [mg EXCEPT ![u] = [IdleMgCall EXCEPT
                        !.pc = "get_state", !.amount = amount]]
    /\ UNCHANGED <<state, topBids, events, pgBids>>
    /\ MgFrame

\* step 3 and 4: HGETALL, the high bid read (or the starting bid), the
\* minimum amount
MgGetState(u) ==
    /\ mg[u].pc = "get_state"
    /\ LET current_high_bid == IF state.current_high_bid # 0
                               THEN state.current_high_bid
                               ELSE db.starting_bid
       IN  IF mg[u].amount < current_high_bid + MGMT_MINIMUM_BID_INCREMENT
           THEN MgReturn(u, "InvalidBid")
           ELSE mg' = [mg EXCEPT ![u].pc = "check_time",
                                 ![u].current_high_bid = current_high_bid,
                                 ![u].bid_count = state.bid_count]
    /\ UNCHANGED <<state, topBids, events, mgCalls, pgBids>>
    /\ MgFrame

\* step 5: the end-time key, checked only when it holds a time
MgCheckTime(u) ==
    /\ mg[u].pc = "check_time"
    /\ IF EndKeyValue > 0 /\ EndKeyValue - now <= 0
       THEN MgReturn(u, "AuctionClosed")
       ELSE mg' = [mg EXCEPT ![u].pc = "insert"]
    /\ UNCHANGED <<state, topBids, events, mgCalls, pgBids>>
    /\ MgFrame

\* step 6: the bid row is committed; is_new_high from the high bid read
MgInsert(u) ==
    /\ mg[u].pc = "insert"
    /\ pgBids' = Append(pgBids, [user_id |-> u, amount |-> mg[u].amount])
    /\ LET is_new_high == mg[u].amount > mg[u].current_high_bid
       IN  mg' = [mg EXCEPT ![u].is_new_high = is_new_high,
                            ![u].pc = IF is_new_high THEN "hset_high"
                                      ELSE "hset_count"]
    /\ UNCHANGED <<state, topBids, events, mgCalls>>
    /\ MgFrame

\* step 7: HSET current_high_bid
MgSetHigh(u) ==
    /\ mg[u].pc = "hset_high"
    /\ state' = [state EXCEPT !.exists = TRUE,
                              !.current_high_bid = mg[u].amount]
    /\ mg' = [mg EXCEPT ![u].pc = "hset_bidder"]
    /\ UNCHANGED <<topBids, events, mgCalls, pgBids>>
    /\ MgFrame

\* step 7: HSET high_bidder_id (and high_bidder_username)
MgSetBidder(u) ==
    /\ mg[u].pc = "hset_bidder"
    /\ state' = [state EXCEPT !.exists = TRUE, !.high_bidder_id = u]
    /\ mg' = [mg EXCEPT ![u].pc = "hset_count"]
    /\ UNCHANGED <<topBids, events, mgCalls, pgBids>>
    /\ MgFrame

\* step 7: HSET bid_count to the count read in step 3 plus one
MgSetCount(u) ==
    /\ mg[u].pc = "hset_count"
    /\ state' = [state EXCEPT !.exists = TRUE,
                              !.bid_count = mg[u].bid_count + 1]
    /\ mg' = [mg EXCEPT ![u].pc = IF mg[u].is_new_high THEN "zadd"
                                  ELSE "publish"]
    /\ UNCHANGED <<topBids, events, mgCalls, pgBids>>
    /\ MgFrame

\* step 8: add_top_bid, its three commands
MgZAdd(u) ==
    /\ mg[u].pc = "zadd"
    /\ topBids' = ZAdd(topBids, u, mg[u].amount)
    /\ mg' = [mg EXCEPT ![u].pc = "zcard"]
    /\ UNCHANGED <<state, events, mgCalls, pgBids>>
    /\ MgFrame

MgZCard(u) ==
    /\ mg[u].pc = "zcard"
    /\ LET count == Cardinality(topBids)
       IN  mg' = [mg EXCEPT ![u].count = count,
                            ![u].pc = IF count > 3 THEN "zrem" ELSE "publish"]
    /\ UNCHANGED <<state, topBids, events, mgCalls, pgBids>>
    /\ MgFrame

MgZRem(u) ==
    /\ mg[u].pc = "zrem"
    /\ topBids' = RemoveLowest(topBids, mg[u].count - 3)
    /\ mg' = [mg EXCEPT ![u].pc = "publish"]
    /\ UNCHANGED <<state, events, mgCalls, pgBids>>
    /\ MgFrame

\* step 9: PUBLISH the bid event, then the answer
MgPublish(u) ==
    /\ mg[u].pc = "publish"
    /\ events' = events \cup
          {[type |-> "bid", user_id |-> u, amount |-> mg[u].amount,
            timestamp |-> now, is_new_high |-> mg[u].is_new_high]}
    /\ MgReturn(u, IF mg[u].is_new_high THEN "success" ELSE "outbid")
    /\ UNCHANGED <<state, topBids, mgCalls, pgBids>>
    /\ MgFrame

place_bid(u) ==
    \/ MgValidate(u) \/ MgGetState(u) \/ MgCheckTime(u) \/ MgInsert(u)
    \/ MgSetHigh(u) \/ MgSetBidder(u) \/ MgSetCount(u)
    \/ MgZAdd(u) \/ MgZCard(u) \/ MgZRem(u) \/ MgPublish(u)

\* ---------------------------------------------------------------- pub/sub retry
\* settings: REDIS_PUBSUB_RETRY_*
RETRY_ENABLED == TRUE
RETRY_MAX_ATTEMPTS == 10
RETRY_INITIAL_DELAY == 2
RETRY_MAX_DELAY == 60
RETRY_MULTIPLIER == 2

RetryFrame ==
    UNCHANGED <<now, ticks, state, endKey, topBids, events, timerEvents,
                bidQueue, bidDedup, pb, calls, accepted, activeKey, db, tm,
                cl, closes, faults, closeLog, notifQueue, notifDedup,
                consumerVars, mgVars, wsVars, us>>

\* start(): running is set and _start_with_retry begins with attempt 0 and
\* the initial delay.  fails counts the failed attempts since the last
\* successful one.
StartedPubSub ==
    [pc |-> "loop", running |-> TRUE, attempt |-> 0,
     current_delay |-> RETRY_INITIAL_DELAY, fails |-> 0]

\* min(current_delay * retry_multiplier, retry_max_delay)
NextDelay(current_delay) ==
    IF current_delay * RETRY_MULTIPLIER < RETRY_MAX_DELAY
    THEN current_delay * RETRY_MULTIPLIER ELSE RETRY_MAX_DELAY

\* the except clauses of _start_with_retry (ConnectionError, TimeoutError and
\* Exception are handled alike): sleep and go on while attempts are left,
\* else give up
AfterFailedAttempt(p) ==
    IF RETRY_ENABLED /\ p.attempt < RETRY_MAX_ATTEMPTS
    THEN [p EXCEPT !.pc = "sleep", !.fails = @ + 1]
    ELSE [p EXCEPT !.pc = "stopped", !.running = FALSE, !.fails = @ + 1]

\* one turn of the while loop: the loop condition, attempt += 1, then the
\* connection, ping and psubscribe succeed (the delay is reset and _listen
\* runs) or fail
PsAttempt ==
    /\ ps.pc = "loop"
    /\ IF ps.running /\ (~RETRY_ENABLED \/ ps.attempt < RETRY_MAX_ATTEMPTS)
       THEN \/ ps' = [ps EXCEPT !.attempt = @ + 1, !.pc = "listen",
                                !.current_delay = RETRY_INITIAL_DELAY,
                                !.fails = 0]
            \/ ps' = AfterFailedAttempt([ps EXCEPT !.attempt = @ + 1])
       ELSE ps' = [ps EXCEPT !.pc = "exited"]
    /\ RetryFrame

\* eventlet.sleep(current_delay), then the next delay
PsSleep ==
    /\ ps.pc = "sleep"
    /\ ps' = [ps EXCEPT !.pc = "loop",
                        !.current_delay = NextDelay(ps.current_delay)]
    /\ RetryFrame

\* _listen ends: it raises the ConnectionError of a lost connection, which
\* the except clause of _start_with_retry handles, or it returns and the
\* loop goes on
PsListenEnds ==
    /\ ps.pc = "listen"
    /\ \/ ps' = AfterFailedAttempt(ps)
       \/ ps' = [ps EXCEPT !.pc = "loop"]
    /\ RetryFrame

\* ---------------------------------------------------------------- websocket service
\* connection ids (request.sid); a connection id is used by one connection
Sids == {"s1", "s2"}
\* the auction of this model, and the auctions a client may name
AuctionId == "a1"
AuctionIds == {AuctionId, "a2"}
\* number of join_auction, leave_auction and chat_message events in one
\* behaviour
MaxWsOps == 3
\* max_history of save_chat_message
CHAT_MAX_HISTORY == 100

\* a token as verify_token looks at it, and request.args without a token
GoodToken(sub) ==
    [present |-> TRUE, sub |-> sub, signature |-> TRUE, expired |-> FALSE,
     issuer |-> TRUE, audience |-> TRUE]
NoToken == [GoodToken(None) EXCEPT !.present = FALSE]
Tokens ==
    {NoToken, GoodToken("u1"), GoodToken("u2"),
     [GoodToken("u2") EXCEPT !.signature = FALSE],
     [GoodToken("u2") EXCEPT !.expired = TRUE],
     [GoodToken("u2") EXCEPT !.issuer = FALSE],
     [GoodToken("u2") EXCEPT !.audience = FALSE]}

\* verify_token: jwt.decode with verify_signature, verify_exp, verify_aud and
\* verify_iss; the claims (here the subject) or None
verify_token(token) ==
    IF token.signature /\ ~token.expired /\ token.issuer /\ token.audience
    THEN token.sub ELSE None

\* conn_data of on_connect; the record with user_id None stands for "no data"
ConnData(user_id, auction_id) == [user_id |-> user_id, auction_id |-> auction_id]
NoConn == ConnData(None, None)

\* get_connection: the local memory, then the Redis hash
get_connection(sid) ==
    IF connections[sid] # NoConn THEN connections[sid] ELSE connKeys[sid]

WsFrame ==
    UNCHANGED <<now, ticks, endKey, topBids, events, timerEvents,
                bidQueue, bidDedup, pb, calls, accepted, activeKey, db, tm,
                cl, closes, faults, closeLog, notifQueue, notifDedup,
                consumerVars, mgVars, ps, us>>

\* handle_connect calls on_connect and returns nothing: Socket.IO refuses a
\* connection only when the connect handler returns False
handle_connect(ret) == None

\* on_connect(request.sid, request.args), called by handle_connect
on_connect(sid, token) ==
    /\ sockets[sid] = "new"
    /\ handshake' = [handshake EXCEPT ![sid] = token]
    /\ LET claims == IF ~token.present THEN None ELSE verify_token(token)
           ret == IF claims = None THEN "False" ELSE "True"
       IN  /\ IF claims = None
              THEN UNCHANGED <<connections, connKeys>>
              ELSE /\ connections' =
                         [connections EXCEPT ![sid] = ConnData(claims, None)]
                   /\ connKeys' =
                         [connKeys EXCEPT ![sid] = ConnData(claims, None)]
           /\ sockets' = [sockets EXCEPT ![sid] =
                             IF handle_connect(ret) = "False"
                             THEN "closed" ELSE "open"]
    /\ UNCHANGED <<auction_connections, room, participants,
                   participant_count, chatChannel, chatHistory, broadcasts,
                   handled, wsOps, chatListener, chatPubSub, state, wsCall>>
    /\ WsFrame

\* the handler of a connection that is between its SCARD (get_participant_count)
\* and its HSET of participant_count: which handler, the auction and the
\* count it read
IdleWsCall == [pc |-> "idle", count |-> 0, auction |-> None]

\* update_auction_field(auction_id, "participant_count", count): an HSET on
\* the state hash of that auction, which creates the hash when there is none
UpdateState(st, auction_id) ==
    IF auction_id = AuctionId THEN [st EXCEPT !.exists = TRUE] ELSE st

\* on_join_auction(request.sid, data) up to get_participant_count: the room,
\* SADD to the participants set, the connection mappings, SCARD
on_join_auction(sid, auction_id) ==
    /\ sockets[sid] = "open"
    /\ wsCall[sid].pc = "idle"
    /\ wsOps < MaxWsOps
    /\ wsOps' = wsOps + 1
    /\ LET conn_info == get_connection(sid)
           user_id == conn_info.user_id
       IN  IF conn_info = NoConn \/ auction_id = None
           THEN UNCHANGED <<connections, connKeys, auction_connections, room,
                            participants, wsCall>>
           ELSE /\ room' = [room EXCEPT ![auction_id] = @ \cup {sid}]
                /\ participants' =
                      [participants EXCEPT ![auction_id] = @ \cup {user_id}]
                /\ auction_connections' =
                      [auction_connections EXCEPT ![auction_id][user_id] = sid]
                /\ connections' = [connections EXCEPT
                                     ![sid] = ConnData(user_id, auction_id)]
                /\ connKeys' = [connKeys EXCEPT
                                  ![sid] = ConnData(user_id, auction_id)]
                /\ wsCall' = [wsCall EXCEPT ![sid] =
                      [pc |-> "join_count", auction |-> auction_id,
                       count |-> Cardinality(participants'[auction_id])]]
    /\ UNCHANGED <<sockets, handshake, chatChannel, chatHistory, handled,
                   chatListener, chatPubSub, participant_count, broadcasts,
                   state>>
    /\ WsFrame

\* on_join_auction, the rest: update_auction_field writes participant_count,
\* then the snapshot for the caller and user_joined for the others
JoinSetCount(sid) ==
    /\ wsCall[sid].pc = "join_count"
    /\ participant_count' =
          [participant_count EXCEPT ![wsCall[sid].auction] = wsCall[sid].count]
    /\ state' = UpdateState(state, wsCall[sid].auction)
    /\ broadcasts' = Append(broadcasts,
          [event |-> "user_joined", auction_id |-> wsCall[sid].auction,
           user_id |-> get_connection(sid).user_id,
           participant_count |-> wsCall[sid].count, skip_sid |-> sid])
    /\ wsCall' = [wsCall EXCEPT ![sid] = IdleWsCall]
    /\ UNCHANGED <<sockets, handshake, connections, connKeys,
                   auction_connections, room, participants, chatChannel,
                   chatHistory, handled, wsOps, chatListener, chatPubSub>>
    /\ WsFrame

\* on_leave_auction(request.sid, data) up to get_participant_count
on_leave_auction(sid, data_auction_id) ==
    /\ sockets[sid] = "open"
    /\ wsCall[sid].pc = "idle"
    /\ wsOps < MaxWsOps
    /\ wsOps' = wsOps + 1
    /\ LET conn_info == get_connection(sid)
           user_id == conn_info.user_id
           auction_id == IF data_auction_id # None
                         THEN data_auction_id ELSE conn_info.auction_id
       IN  IF conn_info = NoConn \/ auction_id = None
           THEN UNCHANGED <<auction_connections, room, participants, wsCall>>
           ELSE /\ room' = [room EXCEPT ![auction_id] = @ \ {sid}]
                /\ participants' =
                      [participants EXCEPT ![auction_id] = @ \ {user_id}]
                /\ auction_connections' =
                      [auction_connections EXCEPT ![auction_id][user_id] = None]
                /\ wsCall' = [wsCall EXCEPT ![sid] =
                      [pc |-> "leave_count", auction |-> auction_id,
                       count |-> Cardinality(participants'[auction_id])]]
    /\ UNCHANGED <<sockets, handshake, chatChannel, chatHistory, broadcasts,
                   handled, chatListener, chatPubSub, connections, connKeys,
                   participant_count, state>>
    /\ WsFrame

\* on_leave_auction, the rest: participant_count, then auction_id is taken
\* out of the connection data
LeaveSetCount(sid) ==
    /\ wsCall[sid].pc = "leave_count"
    /\ participant_count' =
          [participant_count EXCEPT ![wsCall[sid].auction] = wsCall[sid].count]
    /\ state' = UpdateState(state, wsCall[sid].auction)
    /\ connections' = [connections EXCEPT
                         ![sid] = ConnData(get_connection(sid).user_id, None)]
    /\ connKeys' = [connKeys EXCEPT
                      ![sid] = ConnData(get_connection(sid).user_id, None)]
    /\ wsCall' = [wsCall EXCEPT ![sid] = IdleWsCall]
    /\ UNCHANGED <<sockets, handshake, auction_connections, room,
                   participants, chatChannel, chatHistory, broadcasts,
                   handled, wsOps, chatListener, chatPubSub>>
    /\ WsFrame

\* on_disconnect(request.sid) up to get_participant_count, for the auction
\* named by the connection data; Socket.IO takes the connection out of all
\* its rooms
on_disconnect(sid) ==
    /\ sockets[sid] = "open"
    /\ wsCall[sid].pc = "idle"
    /\ sockets' = [sockets EXCEPT ![sid] = "closed"]
    /\ room' = [a \in AuctionIds |-> room[a] \ {sid}]
    /\ LET conn_info == get_connection(sid)
           user_id == conn_info.user_id
           auction_id == conn_info.auction_id
       IN  IF conn_info = NoConn
           THEN UNCHANGED <<connections, connKeys, auction_connections,
                            participants, wsCall>>
           ELSE IF auction_id # None
           THEN /\ participants' =
                      [participants EXCEPT ![auction_id] = @ \ {user_id}]
                /\ auction_connections' =
                      [auction_connections EXCEPT ![auction_id][user_id] = None]
                /\ wsCall' = [wsCall EXCEPT ![sid] =
                      [pc |-> "disconnect_count", auction |-> auction_id,
                       count |-> Cardinality(participants'[auction_id])]]
                /\ UNCHANGED <<connections, connKeys>>
           ELSE /\ connections' = [connections EXCEPT ![sid] = NoConn]
                /\ connKeys' = [connKeys EXCEPT ![sid] = NoConn]
                /\ UNCHANGED <<participants, auction_connections, wsCall>>
    /\ UNCHANGED <<handshake, chatChannel, chatHistory, handled, wsOps,
                   chatListener, chatPubSub, participant_count, broadcasts,
                   state>>
    /\ WsFrame

\* on_disconnect, the rest: participant_count, user_left to the room, the
\* connection data deleted in the process and in Redis
DisconnectSetCount(sid) ==
    /\ wsCall[sid].pc = "disconnect_count"
    /\ participant_count' =
          [participant_count EXCEPT ![wsCall[sid].auction] = wsCall[sid].count]
    /\ state' = UpdateState(state, wsCall[sid].auction)
    /\ broadcasts' = Append(broadcasts,
          [event |-> "user_left", auction_id |-> wsCall[sid].auction,
           user_id |-> get_connection(sid).user_id,
           participant_count |-> wsCall[sid].count])
    /\ connections' = [connections EXCEPT ![sid] = NoConn]
    /\ connKeys' = [connKeys EXCEPT ![sid] = NoConn]
    /\ wsCall' = [wsCall EXCEPT ![sid] = IdleWsCall]
    /\ UNCHANGED <<sockets, handshake, auction_connections, room,
                   participants, chatChannel, chatHistory, handled, wsOps,
                   chatListener, chatPubSub>>
    /\ WsFrame

\* main.py builds ChatHandler(socketio): its connection_handler is None
ChatHasConnectionHandler == FALSE

\* on_chat_message, identity resolution: user_id and username of the payload,
\* the connection's only when the payload has none and a connection handler
\* was given
ChatIdentity(sid, data) ==
    IF data.user_id = None /\ ChatHasConnectionHandler
    THEN get_connection(sid).user_id
    ELSE data.user_id

\* str.strip(): the text without its leading and trailing whitespace.  A text
\* is the sequence of its characters.
Whitespace == {" "}

RECURSIVE LStrip(_)
LStrip(text) ==
    IF text # << >> /\ Head(text) \in Whitespace THEN LStrip(Tail(text))
    ELSE text

RECURSIVE RStrip(_)
RStrip(text) ==
    IF text # << >> /\ text[Len(text)] \in Whitespace
    THEN RStrip(SubSeq(text, 1, Len(text) - 1))
    ELSE text

Strip(text) == RStrip(LStrip(text))

\* save_chat_message: RPUSH, then LTRIM to the last max_history entries
SaveChatMessage(history, chat_data) ==
    LET all == Append(history, chat_data)
    IN  IF Len(all) > CHAT_MAX_HISTORY
        THEN SubSeq(all, Len(all) - CHAT_MAX_HISTORY + 1, Len(all))
        ELSE all

\* on_chat_message(request.sid, data): PUBLISH on the chat channel and the
\* chat history (ENABLE_CHAT_PERSISTENCE is off: nothing is queued)
on_chat_message(sid, data) ==
    /\ sockets[sid] = "open"
    /\ wsCall[sid].pc = "idle"
    /\ wsOps < MaxWsOps
    /\ wsOps' = wsOps + 1
    /\ LET user_id == ChatIdentity(sid, data)
           message == Strip(data.message)
       IN  IF data.auction_id = None \/ message = << >> \/ user_id = None
           THEN UNCHANGED <<chatChannel, chatHistory>>
           ELSE LET chat_data ==
                        [message_id |-> Len(chatChannel) + 1, sid |-> sid,
                         auction_id |-> data.auction_id,
                         user_id |-> user_id, message |-> message,
                         timestamp |-> now]
                IN  /\ chatChannel' = Append(chatChannel, chat_data)
                    /\ chatHistory' = SaveChatMessage(chatHistory, chat_data)
    /\ UNCHANGED <<sockets, handshake, connections, connKeys,
                   auction_connections, room, participants,
                   participant_count, broadcasts, handled, chatListener,
                   chatPubSub, state, wsCall>>
    /\ WsFrame

\* a text of one character more than a chat message may have
LongText == [i \in 1..(500 + 1) |-> "x"]

\* texts a client may send: empty, blank, padded, too long
ChatTexts == {<< >>, <<" ">>, <<" ", "h", "i", " ">>, LongText}

\* payloads of chat_message a client may send
ChatPayloads ==
    [auction_id : {None, AuctionId},
     message : {<< >>, <<" ", "h", "i", " ">>}, user_id : {None, "u2"}]

\* payloads of chat_message with every kind of text
TextPayloads ==
    [auction_id : {AuctionId}, message : ChatTexts, user_id : {None, "u2"}]

\* _handle_event: a bid event makes on_bid_event read the state and the
\* leaderboard and emit one bid_update to the room; auction_end is passed on
\* as auction_ended
HandleEvent_Twice(data) ==
    IF data.type = "bid"
    THEN LET b == [event |-> "bid_update",
                   high_bid |-> state.current_high_bid,
                   top_bids |-> GetTopBids, bid_count |-> state.bid_count,
                   participant_count |-> participant_count[AuctionId]]
         IN  <<b, b>>
    ELSE << >>
HandleEvent(data) ==
    IF data.type = "bid"
    THEN <<[event |-> "bid_update", high_bid |-> state.current_high_bid,
            top_bids |-> GetTopBids, bid_count |-> state.bid_count,
            participant_count |-> participant_count[AuctionId]]>>
    ELSE IF data.type = "auction_end"
    THEN <<[event |-> "auction_ended", data |-> data]>>
    ELSE << >>

\* _listen: the next message of the subscription to auction:*:events
PubSubListen ==
    /\ \E data \in events \ handled :
         /\ handled' = handled \cup {data}
         /\ broadcasts' = broadcasts \o HandleEvent(data)
    /\ UNCHANGED <<sockets, handshake, connections, connKeys,
                   auction_connections, room, participants,
                   participant_count, chatChannel, chatHistory, wsOps,
                   chatListener, chatPubSub, state, wsCall>>
    /\ WsFrame

\* the chat_message emit of a listener: socketio.emit("chat_message", data,
\* room = auction_id, skip_sid = skip_sid) reaches the connections of the
\* room other than skip_sid
ChatEmit(data, skip_sid) ==
    [event |-> "chat_message", message_id |-> data.message_id,
     skip_sid |-> skip_sid, to |-> room[data.auction_id] \ {skip_sid}]

\* ChatHandler._start_redis_listener, started by the constructor: the next
\* message of its subscription to auction:*:chat, emitted without the sender
ChatListen ==
    /\ chatListener < Len(chatChannel)
    /\ chatListener' = chatListener + 1
    /\ broadcasts' = Append(broadcasts,
          ChatEmit(chatChannel[chatListener + 1],
                   chatChannel[chatListener + 1].sid))
    /\ UNCHANGED <<sockets, handshake, connections, connKeys,
                   auction_connections, room, participants,
                   participant_count, chatChannel, chatHistory, handled,
                   wsOps, chatPubSub, state, wsCall>>
    /\ WsFrame

\* PubSubService._listen on a message of auction:*:chat: _handle_chat emits
\* it to the room
PubSubChat ==
    /\ chatPubSub < Len(chatChannel)
    /\ chatPubSub' = chatPubSub + 1
    /\ broadcasts' = Append(broadcasts,
          ChatEmit(chatChannel[chatPubSub + 1], None))
    /\ UNCHANGED <<sockets, handshake, connections, connKeys,
                   auction_connections, room, participants,
                   participant_count, chatChannel, chatHistory, handled,
                   wsOps, chatListener, state, wsCall>>
    /\ WsFrame

\* the service started, nobody connected; the events published before have
\* been handled
InitWs ==
    /\ sockets = [sid \in Sids |-> "new"]
    /\ handshake = [sid \in Sids |-> NoToken]
    /\ connections = [sid \in Sids |-> NoConn]
    /\ connKeys = [sid \in Sids |-> NoConn]
    /\ auction_connections = [a \in AuctionIds |-> [u \in Bidders |-> None]]
    /\ room = [a \in AuctionIds |-> {}]
    /\ participants = [a \in AuctionIds |-> {}]
    /\ participant_count = [a \in AuctionIds |-> 0]
    /\ chatChannel = << >>
    /\ chatHistory = << >>
    /\ broadcasts = << >>
    /\ handled = events
    /\ wsOps = 0
    /\ chatListener = 0
    /\ chatPubSub = 0
    /\ wsCall = [sid \in Sids |-> IdleWsCall]
    /\ ps = StartedPubSub

\* ---------------------------------------------------------------- clock
Tick ==
    /\ ticks < MaxTicks
    /\ now' = now + TickStep
    /\ ticks' = ticks + 1
    /\ UNCHANGED <<state, endKey, topBids, events, timerEvents, bidQueue,
                   bidDedup, pb, calls, accepted, activeKey, db, tm, cl,
                   closes, faults, closeLog, notifQueue, notifDedup,
                   consumerVars, mgVars, wsVars, ps, us>>

\* ---------------------------------------------------------------- create_auction
\* the row create_auction commits
NewAuction(host, duration, starting_bid, created_at) ==
    [exists |-> TRUE, status |-> "live", host_user_id |-> host,
     duration |-> duration, starting_bid |-> starting_bid,
     created_at |-> created_at, ended_at |-> {}, winner_id |-> None,
     winning_bid |-> {}]

\* no close request, no fault and no close side effect so far
InitRest ==
    /\ cl = [pc |-> "idle", user |-> None, result |-> 0, http |-> 0]
    /\ closes = 0
    /\ faults = 0
    /\ closeLog = [ended_at |-> 0, auction_end |-> 0, settlement |-> 0]
    /\ notifQueue = << >>
    /\ notifDedup = {}
    /\ emails = [r \in AllUsers |-> 0]
    /\ redeliveries = 0
    /\ mg = [u \in Users |-> IdleMgCall]
    /\ mgCalls = 0
    /\ pgBids = << >>
    /\ us = [rows |-> {UserRow(u) : u \in Registered}, ret |-> {}, calls |-> 0,
             info |-> {}]
    /\ InitWs

\* the state right after create_auction(host, duration, starting_bid), called
\* at time 0
InitFresh ==
    /\ now = 0
    /\ ticks = 0
    /\ \E d \in Durations, s \in StartingBids :
         /\ state = NewState(Host, s, 0, d)
         /\ endKey = {d}
         /\ db = NewAuction(Host, d, s, 0)
    /\ topBids = {}
    /\ events = {}
    /\ timerEvents = {}
    /\ bidQueue = << >>
    /\ bidDedup = {}
    /\ pb = [u \in Users |-> IdleCall]
    /\ calls = 0
    /\ accepted = << >>
    /\ bidsTable = {}
    /\ activeKey = TRUE
    /\ tm = TimerLocals(TRUE, 0)
    /\ InitRest

\* The state 120 seconds after create_auction(host, 40, 100), when three
\* earlier callers p1, p2, p3 have bid one after the other, each call run to
\* completion and each inside the anti-snipe window of its time: 200 at 20
\* (end 40 -> 70), 300 at 50 (end 70 -> 100), 400 at 80 (end 100 -> 130).
\* Their persistence messages have been consumed.  The active key (TTL 40)
\* has expired; the timer service holds the auction in its set and ran its
\* last database sync at 59.
EarlierBids ==
    << [user |-> "p1", amount |-> 200, timestamp |-> 20],
       [user |-> "p2", amount |-> 300, timestamp |-> 50],
       [user |-> "p3", amount |-> 400, timestamp |-> 80] >>

InitBusy ==
    /\ now = 120
    /\ ticks = 0
    /\ state = [NewState(Host, 100, 0, 40) EXCEPT
                   !.current_high_bid = 400, !.high_bidder_id = "p3",
                   !.bid_count = 3, !.end_time = 130, !.anti_snipe_count = 3]
    /\ endKey = {130}
    /\ topBids = {<<EarlierBids[i].user, EarlierBids[i].amount>> : i \in 1..3}
    /\ events = {[type |-> "bid", user_id |-> EarlierBids[i].user,
                  amount |-> EarlierBids[i].amount,
                  timestamp |-> EarlierBids[i].timestamp,
                  anti_snipe_triggered |-> TRUE] : i \in 1..3}
    /\ timerEvents = {[type |-> "anti_snipe", new_end_time |-> 40 + 30 * i,
                       extension_count |-> i] : i \in 1..3}
    /\ bidQueue = << >>
    /\ bidDedup = {BidDedupId(EarlierBids[i].timestamp) : i \in 1..3}
    /\ pb = [u \in Users |-> IdleCall]
    /\ calls = 0
    /\ accepted = EarlierBids
    /\ bidsTable = {[bid_id |-> i, user_id |-> EarlierBids[i].user,
                     amount |-> EarlierBids[i].amount,
                     timestamp |-> EarlierBids[i].timestamp,
                     ttl_expiry |-> EarlierBids[i].timestamp + BID_TTL] :
                        i \in 1..Len(EarlierBids)}
    /\ activeKey = FALSE
    /\ db = NewAuction(Host, 40, 100, 0)
    /\ tm = TimerLocals(TRUE, 59)
    /\ InitRest

\* the busy auction one bid later: p1 raised to 500 at 110 and triggered the
\* fourth extension, the end time is 160 and the clock says 150
LastEarlierBid == [user |-> "p1", amount |-> 500, timestamp |-> 110]

InitSniped ==
    /\ now = 150
    /\ ticks = 0
    /\ state = [NewState(Host, 100, 0, 40) EXCEPT
                   !.current_high_bid = 500, !.high_bidder_id = "p1",
                   !.bid_count = 4, !.end_time = 160, !.anti_snipe_count = 4]
    /\ endKey = {160}
    /\ topBids = {<<"p1", 500>>, <<"p2", 300>>, <<"p3", 400>>}
    /\ events = {[type |-> "bid", user_id |-> b.user, amount |-> b.amount,
                  timestamp |-> b.timestamp, anti_snipe_triggered |-> TRUE] :
                    b \in {EarlierBids[i] : i \in 1..3} \cup {LastEarlierBid}}
    /\ timerEvents = {[type |-> "anti_snipe", new_end_time |-> 40 + 30 * i,
                       extension_count |-> i] : i \in 1..4}
    /\ bidQueue = << >>
    /\ bidDedup = {BidDedupId(b.timestamp) :
                     b \in {EarlierBids[i] : i \in 1..3} \cup {LastEarlierBid}}
    /\ pb = [u \in Users |-> IdleCall]
    /\ calls = 0
    /\ accepted = Append(EarlierBids, LastEarlierBid)
    /\ bidsTable = {[bid_id |-> i, user_id |-> accepted[i].user,
                     amount |-> accepted[i].amount,
                     timestamp |-> accepted[i].timestamp,
                     ttl_expiry |-> accepted[i].timestamp + BID_TTL] :
                        i \in 1..Len(accepted)}
    /\ activeKey = FALSE
    /\ db = NewAuction(Host, 40, 100, 0)
    /\ tm = TimerLocals(TRUE, 119)
    /\ InitRest

\* ---------------------------------------------------------------- specifications
\* concurrent process_bid calls on the busy auction
NextBid == Tick \/ \E u \in Users : process_bid(u)

SpecBid == InitBusy /\ [][NextBid]_vars

\* The auction of InitFresh an hour and more after its creation, nobody having
\* bid and no timer service having run: the end-time key (TTL duration + 3600)
\* and the active key have expired, the hash and the row are as created. A
\* timer service starts: _load_active_auctions finds the live row.
KEY_TTL_MARGIN == 3600

InitExpiredKey ==
    /\ \E d \in Durations, s \in StartingBids :
         /\ now = d + KEY_TTL_MARGIN
         /\ state = NewState(Host, s, 0, d)
         /\ db = NewAuction(Host, d, s, 0)
    /\ ticks = 0
    /\ endKey = {}
    /\ topBids = {}
    /\ events = {}
    /\ timerEvents = {}
    /\ bidQueue = << >>
    /\ bidDedup = {}
    /\ pb = [u \in Users |-> IdleCall]
    /\ calls = 0
    /\ accepted = << >>
    /\ bidsTable = {}
    /\ activeKey = FALSE
    /\ tm = TimerLocals(TRUE, 0)
    /\ InitRest

\* The auction of InitFresh 20 seconds after its creation when the Redis data
\* has been lost (a restart without persistence): only the row remains. A
\* timer service starts: _load_active_auctions finds the live row.
InitLost ==
    /\ now = 20
    /\ ticks = 0
    /\ state = NoState
    /\ \E d \in Durations, s \in StartingBids : db = NewAuction(Host, d, s, 0)
    /\ endKey = {}
    /\ topBids = {}
    /\ events = {}
    /\ timerEvents = {}
    /\ bidQueue = << >>
    /\ bidDedup = {}
    /\ pb = [u \in Users |-> IdleCall]
    /\ calls = 0
    /\ accepted = << >>
    /\ bidsTable = {}
    /\ activeKey = FALSE
    /\ tm = TimerLocals(TRUE, 0)
    /\ InitRest

\* the timer service, close requests and the notification consumer
NextTimer == Tick \/ Timer \/ close_auction \/ NotifyDeliver

InitTimer == InitBusy \/ InitExpiredKey \/ InitLost

SpecTimer == InitTimer /\ [][NextTimer]_vars

\* one bidder and close requests on the busy auction
NextClose == Tick \/ process_bid("u1") \/ close_auction

SpecClose == InitBusy /\ [][NextClose]_vars

\* the two bid endpoints on the busy auction
NextMgmt == Tick \/ process_bid("u1") \/ place_bid("u2")

SpecMgmt == InitBusy /\ [][NextMgmt]_vars

\* the bid endpoint and the persistence consumer
NextPersist == Tick \/ (\E u \in Bidders : process_bid(u)) \/ PersistBid

SpecPersist == InitBusy /\ [][NextPersist]_vars

\* the host and one bidder on the bid endpoint, and close requests
NextErr == Tick \/ (\E u \in {Host, "u1"} : process_bid(u)) \/ close_auction

SpecErr == InitBusy /\ [][NextErr]_vars

\* one bidder whose post-commit commands may fail
NextFault == Tick \/ process_bid("u1") \/ PbFail("u1")

SpecFault == InitBusy /\ [][NextFault]_vars

NextWs ==
    \/ \E sid \in Sids :
          \/ \E token \in Tokens : on_connect(sid, token)
          \/ \E auction_id \in {None} \cup AuctionIds :
                on_join_auction(sid, auction_id)
          \/ \E auction_id \in {None} \cup AuctionIds :
                on_leave_auction(sid, auction_id)
          \/ on_disconnect(sid)
          \/ JoinSetCount(sid) \/ LeaveSetCount(sid) \/ DisconnectSetCount(sid)
          \/ \E data \in ChatPayloads : on_chat_message(sid, data)
    \/ ChatListen
    \/ PubSubChat

SpecWs == InitBusy /\ [][NextWs]_vars

\* chat only: connections, joins and chat messages of every kind of text
NextChat ==
    \/ \E sid \in Sids :
          \/ \E token \in {GoodToken("u1"), GoodToken("u2")} :
                on_connect(sid, token)
          \/ on_join_auction(sid, AuctionId)
          \/ JoinSetCount(sid)
          \/ \E data \in TextPayloads : on_chat_message(sid, data)
    \/ ChatListen
    \/ PubSubChat

SpecChat == InitBusy /\ [][NextChat]_vars

\* the websocket service when the auction has no live state
SpecWsLost == InitLost /\ [][NextWs]_vars

\* the subscriber of the websocket service and its connection to Redis
NextRetry == PsAttempt \/ PsSleep \/ PsListenEnds

SpecRetry == InitBusy /\ [][NextRetry]_vars

\* the steps of the timer service on an auction whose end-time key exists
\* and whose row is live until the timer closes it: the fallbacks for a
\* missing key and the check of a row closed by somebody else are not taken
TimerWithKey ==
    \/ TmLoop \/ TmGetKey \/ TmCompare \/ TmEndReadState \/ TmEndDb
    \/ TmEndTopBids \/ TmEndCommit \/ TmEndSetStatus \/ TmEndPublish
    \/ TmEndPublishTimer \/ TmEndNotify \/ TmAfter \/ TmSyncQuery

\* the timer service closing the busy auction while a bid is processed
NextEndRace == Tick \/ TimerWithKey \/ process_bid("u1")

SpecEndRace == InitBusy /\ [][NextEndRace]_vars

\* concurrent bids in the last seconds of the auction extended four times
NextSnipe == Tick \/ \E u \in Bidders : process_bid(u)

SpecSnipe == InitSniped /\ [][NextSnipe]_vars

\* sign-ins: calls of get_or_create_user_from_cognito, one after the other
NextUsers == \E info \in CognitoInfos : get_or_create_user_from_cognito(info)

SpecUsers == InitBusy /\ [][NextUsers]_vars

NextFanout == Tick \/ process_bid("u1") \/ PubSubListen

SpecFanout == InitBusy /\ [][NextFanout]_vars

Quiescent == \A u \in Users : pb[u].pc = "idle"

C4_EndTimeNeverDecreases ==
    [][/\ EndKeyValue' >= EndKeyValue
       /\ state'.end_time >= state.end_time]_vars

\* C5: anti_snipe_count never exceeds MAX_ANTI_SNIPE_EXTENSIONS.
C5_AntiSnipeCountBounded ==
    state.anti_snipe_count <= MAX_ANTI_SNIPE_EXTENSIONS

\* the maximum is reached while another accepted bid of the window is about
\* to write its own count
C5_Witness ==
    /\ state.anti_snipe_count = MAX_ANTI_SNIPE_EXTENSIONS
    /\ \E u \in Bidders : pb[u].pc = "as_set_count"

\* C3: once the live-state status is closed, no bid is admitted: every later
\* step leaves current_high_bid, high_bidder_id and bid_count as they were.
C3_ClosedAdmitsNoBid ==
    [][state.status = "closed" =>
          /\ state'.current_high_bid = state.current_high_bid
          /\ state'.high_bidder_id = state.high_bidder_id
          /\ state'.bid_count = state.bid_count]_vars

\* C6: once the live state exists, current_high_bid changes only in a step in
\* which the commit script accepts a bid.
C6_OnlyScriptWritesHighBid ==
    [][state.exists /\ state'.current_high_bid # state.current_high_bid =>
          accepted' # accepted]_vars

\* the bids table holds the item of an accepted bid
Persisted(b) ==
    \E r \in bidsTable :
        r.user_id = b.user /\ r.amount = b.amount /\ r.timestamp = b.timestamp

\* C7: every accepted bid reaches the durable bid store: when every call has
\* returned and the persistence consumer has emptied the queue, each accepted
\* bid has its item.
C7_AcceptedBidsPersisted ==
    (Quiescent /\ bidQueue = << >>) =>
        \A i \in 1..Len(accepted) : Persisted(accepted[i])

\* C8: an auction leaves the timer's active set only when its durable status
\* is no longer live.
C8_NeverDroppedWhileLive ==
    [][tm.active /\ ~tm'.active => db'.status # "live"]_vars

\* C9: closed is terminal: neither the durable nor the live-state status
\* leaves closed, and each close side effect (the write of ended_at, the
\* publish of auction_end, the enqueue of the settlement message) happens at
\* most once.
C9_ClosedIsTerminal ==
    [][/\ db.status = "closed" => db'.status = "closed"
       /\ state.status = "closed" => state'.status = "closed"
       /\ closeLog'.ended_at <= 1
       /\ closeLog'.auction_end <= 1
       /\ closeLog'.settlement <= 1]_vars

\* C10: when one settlement message was enqueued for the close, no recipient
\* is sent more than one notification, however often the message is delivered.
C10_OneNotificationPerRecipient ==
    closeLog.settlement <= 1 => \A r \in AllUsers : emails[r] <= 1

\* C11: a call whose bid the commit script accepted returns status success,
\* also when a later step fails.
C11_AcceptedBidReturnsSuccess ==
    [][\A u \in Bidders :
          (pb[u].pc \in PostCommit /\ pb'[u].pc = "idle") =>
              pb'[u].result = "success"]_vars

\* the error kinds of the preconditions
Errors == {"AuctionNotFound", "AuctionClosed", "Forbidden", "InvalidBid"}

\* C12: the preconditions are evaluated in the order (1) live state exists
\* with status live, (2) bidder is not the host, (3) time remains, (4) the
\* amount reaches the minimum, and the error of the first failing one is
\* reported.
C12_FirstFailingPrecondition ==
    [][\A u \in Users :
         /\ (pb[u].pc = "idle" /\ pb'[u] # pb[u]) =>
               IF ~state.exists
               THEN pb'[u].pc = "idle" /\ pb'[u].result = "AuctionNotFound"
               ELSE IF state.status # "live"
               THEN pb'[u].pc = "idle" /\ pb'[u].result = "AuctionClosed"
               ELSE IF state.host_user_id = u
               THEN pb'[u].pc = "idle" /\ pb'[u].result = "Forbidden"
               ELSE pb'[u].pc = "end_time"
         /\ (pb[u].pc = "end_time" /\ pb'[u] # pb[u]) =>
               IF EndKeyValue - now <= 0
               THEN pb'[u].pc = "idle" /\ pb'[u].result = "AuctionClosed"
               ELSE IF pb[u].amount <
                          pb[u].current_high + MINIMUM_BID_INCREMENT
               THEN pb'[u].pc = "idle" /\ pb'[u].result = "InvalidBid"
               ELSE pb'[u].pc = "stamp"]_vars

\* the host was answered AuctionClosed: preconditions (1) and (2) both failed
\* and (1) was reported
C12_Witness ==
    /\ pb[Host].result = "AuctionClosed"
    /\ state.status = "closed"
    /\ \E u \in Bidders : pb[u].result = "InvalidBid"

\* C13 as stated: every bid of the host is answered Forbidden.
C13_HostAlwaysForbidden ==
    [][(pb[Host].pc = "idle" /\ pb'[Host] # pb[Host]) =>
          pb'[Host].pc = "idle" /\ pb'[Host].result = "Forbidden"]_vars

\* C13 amended: a bid of the host is never admitted; it is answered Forbidden
\* whenever the live state exists with status live, whatever the time
\* remaining and the amount, and with the error of precondition (1)
\* otherwise.
C13_HostNeverAdmitted ==
    [][(pb[Host].pc = "idle" /\ pb'[Host] # pb[Host]) =>
          /\ pb'[Host].pc = "idle"
          /\ pb'[Host].result =
                IF ~state.exists THEN "AuctionNotFound"
                ELSE IF state.status # "live" THEN "AuctionClosed"
                ELSE "Forbidden"]_vars

\* the host was answered Forbidden on a live auction whose time is over
C13_Witness ==
    /\ pb[Host].result = "Forbidden"
    /\ state.status = "live"
    /\ EndKeyValue - now <= 0
    /\ calls = 1

\* C14: a call rejected by a precondition has written nothing: its steps up
\* to the rejection leave the live state, the end-time key and the
\* leaderboard unchanged, publish no event and enqueue no message.
C14_RejectedBidChangesNothing ==
    [][\A u \in Users :
          (pb[u].pc \in {"idle", "end_time"} /\ pb'[u] # pb[u]) =>
              UNCHANGED <<state, endKey, topBids, events, timerEvents,
                          bidQueue, bidDedup>>]_vars

\* a bid was rejected for its amount after an accepted one
C14_Witness ==
    /\ \E u \in Bidders : pb[u].result = "InvalidBid"
    /\ pb[Host].result = "Forbidden"
    /\ Len(accepted) > Len(EarlierBids)

\* C15: an accepted bid asks for an extension iff its time remaining is below
\* the threshold, and gets it iff anti_snipe_count is below the maximum: the
\* end-time key and end_time become the end time the call read plus the
\* extension, anti_snipe_count the count read plus one.  At the maximum the
\* end time and the count stay as they are, and the call still returns
\* success.  Nothing else in a bid call writes the end time or the count.
C15_ExtendsIffInWindowBelowMax ==
    [][/\ \A u \in Bidders :
            pb'[u] # pb[u] =>
              /\ (pb[u].pc \in {"zcard", "zrem"} /\ pb'[u].pc # "zrem") =>
                    pb'[u].pc = IF pb[u].time_remaining < ANTI_SNIPE_THRESHOLD
                                THEN "as_read" ELSE "publish"
              /\ pb[u].pc = "as_read" =>
                    IF state.anti_snipe_count < MAX_ANTI_SNIPE_EXTENSIONS
                    THEN pb'[u].pc = "as_set_key"
                    ELSE /\ pb'[u].pc = "publish" /\ ~pb'[u].snipe
                         /\ UNCHANGED <<state, endKey>>
              /\ pb[u].pc = "as_set_key" =>
                    endKey' = {pb[u].end_time_ms + ANTI_SNIPE_EXTENSION}
              /\ pb[u].pc = "as_set_end" =>
                    state'.end_time = pb[u].end_time_ms + ANTI_SNIPE_EXTENSION
              /\ pb[u].pc = "as_set_count" =>
                    /\ state'.anti_snipe_count = pb[u].count + 1
                    /\ pb[u].count < MAX_ANTI_SNIPE_EXTENSIONS
              /\ pb[u].pc = "publish" => pb'[u].pc = "enqueue"
              /\ pb[u].pc = "enqueue" => pb'[u].result = "success"
       /\ (\/ endKey' # endKey
           \/ state'.end_time # state.end_time
           \/ state'.anti_snipe_count # state.anti_snipe_count) =>
             \E u \in Bidders :
                /\ pb'[u] # pb[u]
                /\ pb[u].pc \in {"as_set_key", "as_set_end", "as_set_count"}
                /\ pb[u].time_remaining < ANTI_SNIPE_THRESHOLD]_vars

\* a bid inside the window, accepted at the maximum without an extension
C15_Witness ==
    \E u \in Bidders :
        /\ pb[u].pc = "enqueue"
        /\ ~pb[u].snipe
        /\ pb[u].time_remaining < ANTI_SNIPE_THRESHOLD
        /\ state.anti_snipe_count = MAX_ANTI_SNIPE_EXTENSIONS
        /\ EndKeyValue = pb[u].end_time_ms

\* C16: when two bids of two users race, both past the preconditions, then in
\* both commit orders the high bid is the higher amount with its bidder,
\* bid_count has grown by 2 and the leaderboard holds exactly one entry per
\* user.
C16_RacingBidsBothCounted ==
    (/\ Quiescent
     /\ calls = 2
     /\ \A u \in Bidders : pb[u].result \in {"success", "outbid"}) =>
        /\ state.current_high_bid = accepted[Len(accepted)].amount
        /\ state.high_bidder_id = accepted[Len(accepted)].user
        /\ state.bid_count = Len(EarlierBids) + 2
        /\ \A u \in Bidders : Cardinality({e \in topBids : e[1] = u}) = 1

\* C18: a manual close performed by the host runs the steps of the timer
\* close: once it has answered, the durable record holds status closed and,
\* when a high bidder exists, the winner and the winning bid; the live state
\* has status closed; auction_end and the final timer message are published;
\* the settlement message is enqueued; the auction has left the timer's set.
C18_ManualCloseRunsTimerCloseSteps ==
    (cl.pc = "idle" /\ cl.user = Host /\ cl.result = 200) =>
        /\ db.status = "closed"
        /\ state.status = "closed"
        /\ state.high_bidder_id # None =>
              /\ db.winner_id = state.high_bidder_id
              /\ db.winning_bid = {state.current_high_bid}
        /\ \E e \in events : e.type = "auction_end"
        /\ \E e \in timerEvents : e.sync_type = "final"
        /\ closeLog.settlement > 0
        /\ ~tm.active

\* C19: a manual close requested by a user who is not the host is answered
\* with HTTP 403 and changes neither the durable record (status, ended_at)
\* nor the live state.
C19_NonHostCloseForbidden ==
    [][(closes' = closes + 1 /\ db.exists /\ cl'.user # db.host_user_id) =>
          /\ cl'.http = 403
          /\ db' = db
          /\ state' = state]_vars

C20_UnauthenticatedConnectionInert ==
    \A sid \in Sids :
        (/\ sockets[sid] # "new"
         /\ (~handshake[sid].present \/ verify_token(handshake[sid]) = None)) =>
            /\ connections[sid] = NoConn
            /\ connKeys[sid] = NoConn
            /\ \A a \in AuctionIds : sid \notin room[a]
            /\ \A a \in AuctionIds, u \in Bidders :
                  auction_connections[a][u] # sid
            /\ \A i \in 1..Len(chatChannel) : chatChannel[i].sid # sid
            /\ \A i \in 1..Len(chatHistory) : chatHistory[i].sid # sid

\* C21: the user_id (and the username that goes with it) of a published and
\* of a stored chat message is the authenticated identity of the session that
\* sent it, whatever the payload named.
C21_ChatStampedWithSessionIdentity ==
    /\ \A i \in 1..Len(chatChannel) :
          LET m == chatChannel[i]
          IN  verify_token(handshake[m.sid]) # None =>
                 m.user_id = verify_token(handshake[m.sid])
    /\ \A i \in 1..Len(chatHistory) :
          LET m == chatHistory[i]
          IN  verify_token(handshake[m.sid]) # None =>
                 m.user_id = verify_token(handshake[m.sid])

\* C22: a chat message is never delivered back to the session that sent it:
\* no chat_message emit of the fan-out reaches the sender's connection.
C22_ChatNeverEchoedToSender ==
    \A i \in 1..Len(broadcasts) :
        broadcasts[i].event = "chat_message" =>
            chatChannel[broadcasts[i].message_id].sid \notin broadcasts[i].to

\* C23: join_auction for an auction that has no live state changes nothing:
\* the participants set, participant_count, the state hash and the room
\* binding of the session stay as they were.
C23_JoinWithoutLiveStateChangesNothing ==
    [][(/\ ~state.exists
        /\ \E sid \in Sids :
              \/ on_join_auction(sid, AuctionId)
              \/ wsCall[sid].auction = AuctionId /\ JoinSetCount(sid)) =>
          /\ participants' = participants
          /\ participant_count' = participant_count
          /\ state' = state
          /\ room' = room
          /\ connections' = connections
          /\ connKeys' = connKeys]_vars

\* C24: when the join_auction, leave_auction and disconnect handlers that ran
\* concurrently have all completed, participant_count of the live state
\* equals the cardinality of the participants set.
C24_CountEqualsParticipants ==
    (/\ \A sid \in Sids : wsCall[sid].pc = "idle"
     /\ \A s1, s2 \in Sids :
           s1 # s2 => verify_token(handshake[s1]) # verify_token(handshake[s2])) =>
        \A a \in AuctionIds :
            participant_count[a] = Cardinality(participants[a])

\* C25: when a session has disconnected and its cleanup has run, its session
\* record is deleted in the process and in Redis, and its user is in the
\* participants set of no auction (unless another session of the same user
\* is still there).
C25_DisconnectLeavesEveryAuction ==
    \A sid \in Sids :
        (sockets[sid] = "closed" /\ wsCall[sid].pc = "idle") =>
            /\ connections[sid] = NoConn
            /\ connKeys[sid] = NoConn
            /\ \A a \in AuctionIds :
                  verify_token(handshake[sid]) \in participants[a] =>
                     \E other \in Sids \ {sid} :
                        verify_token(handshake[other])
                           = verify_token(handshake[sid])

\* initial delay times the multiplier to the power n
RECURSIVE DelayAfter(_)
DelayAfter(n) ==
    IF n = 0 THEN RETRY_INITIAL_DELAY ELSE DelayAfter(n - 1) * RETRY_MULTIPLIER

\* C26: the delay slept after the k-th consecutive failed attempt is the
\* initial delay multiplied by 2 for each earlier failure, capped at the
\* maximum delay, and the subscriber stops for good exactly when 10
\* consecutive attempts have failed.
C26_BackoffAndStopAfterMaxAttempts ==
    /\ ps.pc = "sleep" =>
          ps.current_delay =
             IF DelayAfter(ps.fails - 1) < RETRY_MAX_DELAY
             THEN DelayAfter(ps.fails - 1) ELSE RETRY_MAX_DELAY
    /\ ~ps.running <=> ps.fails >= RETRY_MAX_ATTEMPTS

\* the auction has had no bid: no high bidder and an empty leaderboard
NoBids == state.high_bidder_id = None /\ topBids = {}

\* C27: when the timer close of an auction without bids has run to its end,
\* the durable record has status closed and an ended_at, winner_id and
\* winning_bid are unset, the auction_end event names no winner, and one
\* settlement message was enqueued, with no winner and no losers (nobody is
\* sent an email).
C27_NoBidClose ==
    (NoBids /\ closeLog.settlement > 0) =>
        /\ db.status = "closed"
        /\ db.ended_at # {}
        /\ db.winner_id = None
        /\ db.winning_bid = {}
        /\ \E e \in events : e.type = "auction_end"
        /\ \A e \in events : e.type = "auction_end" => e.winner_id = None
        /\ closeLog.settlement = 1
        /\ \A i \in 1..Len(notifQueue) :
              notifQueue[i].winner = None /\ notifQueue[i].losers = {}
        /\ \A r \in AllUsers : emails[r] = 0

\* the timer has closed an auction without bids and the consumer has taken
\* the settlement message
C27_Witness ==
    /\ NoBids
    /\ closeLog.settlement = 1
    /\ db.status = "closed"
    /\ notifQueue = << >>

C29_BidRouteStatusPerOutcome ==
    \A u \in Users :
        (pb[u].pc = "idle" /\ pb[u].result # None) =>
            /\ pb[u].result \in {"success", "outbid"} => pb[u].http = 200
            /\ pb[u].result = "InvalidBid" => pb[u].http = 400
            /\ pb[u].result = "Forbidden" => pb[u].http = 403
            /\ pb[u].result = "AuctionNotFound" => pb[u].http = 404
            /\ pb[u].result = "AuctionClosed" => pb[u].http = 409

\* every bidder with an accepted bid, with the highest amount accepted from
\* that bidder
BestAccepted ==
    {<<accepted[i].user, accepted[i].amount>> : i \in
        {i \in 1..Len(accepted) :
            \A j \in 1..Len(accepted) :
                accepted[j].user = accepted[i].user =>
                    accepted[j].amount <= accepted[i].amount}}

\* the top min(3, n) of the n bidders ranked by accepted amount
TopThreeAccepted ==
    {e \in BestAccepted :
        Cardinality({f \in BestAccepted : f[2] > e[2]}) < 3}

\* no call is inside add_top_bid
LeaderboardUpdatesDone ==
    \A u \in Users : pb[u].pc \notin {"zadd", "zcard", "zrem"}

\* C30: once the leaderboard updates of all accepted bids have completed, the
\* leaderboard holds at most 3 entries and they are exactly the top
\* min(3, n) of the n distinct bidders ranked by accepted amount.
C30_LeaderboardIsTopThree ==
    LeaderboardUpdatesDone =>
        /\ Cardinality(topBids) <= 3
        /\ topBids = TopThreeAccepted

\* the chat_message emits of message m that reach session sid
ChatDeliveries(m, sid) ==
    {i \in 1..Len(broadcasts) :
        /\ broadcasts[i].event = "chat_message"
        /\ broadcasts[i].message_id = m
        /\ sid \in broadcasts[i].to}

\* C31: the process has one subscriber for the chat channel, so a published
\* chat message is emitted to a session of the room other than the sender at
\* most once (never twice).
C31_ChatEmittedOncePerSession ==
    \A m \in 1..Len(chatChannel) : \A sid \in Sids :
        sid # chatChannel[m].sid =>
            Cardinality(ChatDeliveries(m, sid)) <= 1

\* C32: the attempt budget counts the consecutive failures of one outage, so
\* a subscriber that has recovered from earlier outages keeps reconnecting:
\* it has left its retry loop (stopped, or the loop ended) only when
\* RETRY_MAX_ATTEMPTS attempts in a row have failed.
C32_ReconnectsAfterEveryOutage ==
    ps.pc \in {"stopped", "exited"} => ps.fails >= RETRY_MAX_ATTEMPTS

\* C33: a chat_message whose text is empty after trimming or longer than 500
\* characters is rejected: no such text is in the chat ring or was published
\* on the chat channel.
C33_EmptyOrLongChatRejected ==
    /\ \A i \in 1..Len(chatHistory) :
          /\ chatHistory[i].message # << >>
          /\ Strip(chatHistory[i].message) = chatHistory[i].message
          /\ Len(chatHistory[i].message) <= 500
    /\ \A i \in 1..Len(chatChannel) :
          /\ chatChannel[i].message # << >>
          /\ Strip(chatChannel[i].message) = chatChannel[i].message
          /\ Len(chatChannel[i].message) <= 500

\* the items of the bids table under the key of a bid message
ItemsOf(table, bid_data) ==
    {r \in table : r.timestamp = bid_data.timestamp
                   /\ r.user_id = bid_data.user_id}

\* C34: persisting a bid message is idempotent: after each delivery of a
\* message, the first or a repeated one, the bids table holds exactly one
\* item under its key (auction_id, timestamp#user_id), which carries the
\* message's bid, and the items under other keys are as before.
C34_PersistBidIdempotent ==
    [][(bidQueue # << >> /\ bidsTable' # bidsTable) =>
          LET m == Head(bidQueue)
          IN  /\ Cardinality(ItemsOf(bidsTable', m)) = 1
              /\ \A r \in ItemsOf(bidsTable', m) :
                    r.amount = m.amount /\ r.bid_id = m.bid_id
              /\ bidsTable' \ ItemsOf(bidsTable', m) =
                    bidsTable \ ItemsOf(bidsTable, m)
              /\ ItemsOf(bidsTable, m) # {} =>
                    Cardinality(bidsTable') = Cardinality(bidsTable)]_vars

\* a bid message was delivered twice, at different times, and removed from
\* the queue: the table holds the three earlier items and the one of the
\* message
C34_Witness ==
    /\ redeliveries = 1
    /\ bidQueue = << >>
    /\ Cardinality(bidsTable) = Len(EarlierBids) + 1
    /\ \E r \in bidsTable : r.ttl_expiry > r.timestamp + BID_TTL

\* the rows of the users table under the primary key sub
RowsOf(rows, sub) == {r \in rows : r.user_id = sub}

\* C35: every call of get_or_create_user_from_cognito with user info that
\* carries an email returns a user whose user_id is the Cognito subject and
\* leaves exactly one row for that user; a repeated call with the same user
\* info changes nothing, and a call with a changed name updates the row
\* instead of creating another.
C35_GetOrCreateIdempotent ==
    [][\A info \in CognitoInfos :
          (info.email # NoText /\ get_or_create_user_from_cognito(info)) =>
             /\ us'.ret # {}
             /\ \A r \in us'.ret : r.user_id = info.user_id
             /\ us'.ret = RowsOf(us'.rows, info.user_id)
             /\ Cardinality(RowsOf(us'.rows, info.user_id)) = 1
             /\ us.info = {info} => us'.rows = us.rows
             /\ RowsOf(us.rows, info.user_id) # {} =>
                   /\ Cardinality(us'.rows) = Cardinality(us.rows)
                   /\ info.name # None =>
                         \A r \in us'.ret : r.name = info.name]_vars

\* the latest end time the extensions may lead to: the end time set at
\* creation and MAX_ANTI_SNIPE_EXTENSIONS extensions
LatestEndTime ==
    db.created_at + db.duration
        + MAX_ANTI_SNIPE_EXTENSIONS * ANTI_SNIPE_EXTENSION

\* C36: in every reachable state the end time of the auction, in the state
\* hash and in the end-time key, is at most the end time set at creation plus
\* MAX_ANTI_SNIPE_EXTENSIONS * ANTI_SNIPE_EXTENSION, under any interleaving
\* of concurrent anti-snipe extensions.
C36_EndTimeBounded ==
    /\ state.exists => state.end_time <= LatestEndTime
    /\ EndKeyValue <= LatestEndTime

\* C37: after the timer close of the auction has completed (and the calls in
\* progress have returned), the winner_id and winning_bid of the durable
\* record equal the high_bidder_id and current_high_bid of the live state,
\* under any interleaving of the close with process_bid calls.
C37_DurableWinnerIsLiveHighBidder ==
    (/\ closeLog.settlement > 0
     /\ tm.pc \in {"loop", "after"}
     /\ Quiescent
     /\ state.exists) =>
        /\ db.winner_id = state.high_bidder_id
        /\ db.winning_bid = {state.current_high_bid}

\* C38: when process_bid returns status outbid, the current_high_bid it
\* reports is the high bid that beat the submitted amount: it is at least
\* your_bid and equals the value of the live state the commit script compared
\* against.
C38_OutbidReportsBeatingBid ==
    [][\A u \in Bidders :
          (pb[u].pc = "script" /\ pb'[u].pc = "idle"
           /\ pb'[u].result = "outbid") =>
              /\ pb'[u].reported_high >= pb[u].amount
              /\ pb'[u].reported_high = state.current_high_bid]_vars

\* the session is joined to the auction: it is in the auction's room
Joined(sid, a) == sid \in room[a]

\* C39: a user with two sessions joined to the same auction stays in the
\* participants set, and participant_count does not drop, when one of the
\* two sessions leaves or disconnects.
C39_MemberWhileASessionIsJoined ==
    [][\A sid \in Sids : \A other \in Sids \ {sid} : \A a \in AuctionIds :
          (/\ wsCall'[sid] # wsCall[sid]
           /\ \/ wsCall'[sid].pc \in {"leave_count", "disconnect_count"}
              \/ wsCall[sid].pc \in {"leave_count", "disconnect_count"}
           /\ Joined(other, a) /\ Joined(other, a)'
           /\ get_connection(other).user_id = get_connection(sid).user_id) =>
              /\ get_connection(other).user_id \in participants'[a]
              /\ participant_count'[a] >= participant_count[a]]_vars

\* the key of the row persist_bid writes for an accepted bid: the auction
\* (one here) and timestamp#user_id
BidKey(b) == <<b.timestamp, b.user>>

\* C40: two distinct accepted bids on the auction have persistence messages
\* with distinct deduplication ids and rows with distinct keys, also when both
\* were committed at the same reading of the clock.
C40_DistinctBidsStayDistinct ==
    \A i, j \in DOMAIN accepted :
        i # j =>
           /\ BidDedupId(accepted[i].timestamp)
                 # BidDedupId(accepted[j].timestamp)
           /\ BidKey(accepted[i]) # BidKey(accepted[j])

====
